---- MODULE Spec2Model ----
(***************************************************************************)
(* State-machine model of the IOTUnified repository: the Sparkplug B host  *)
(* (src/sparkplug-host/main.py), the FDI communication server's MQTT       *)
(* adapter (src/fdi/fdi-local/server/fdi_communication_server.py) and the  *)
(* device simulators (src/device-simulator/*.py).                          *)
(*                                                                         *)
(* Conventions.  A topic is the sequence of its '/'-separated segments, so *)
(* msg.topic.split('/') is the topic itself.  SplitDash is split("-") on   *)
(* the device ids of the model, so ("-" in device_id) is                   *)
(* Len(SplitDash(device_id)) > 1.  Wall-clock time is a logical clock that *)
(* advances by one per handled message.                                    *)
(***************************************************************************)
EXTENDS Integers, Sequences, FiniteSets, TLC

VARIABLES
    \* ---- Sparkplug B host (SparkplugBHost) ----
    devices,        \* self.devices: device_id -> record
    hostNow,        \* logical wall clock of the host
    hostPublished,  \* messages the host has published to the broker
    hostLast,       \* history: the message handled by the latest step
    hostAccepted,   \* history: per device, seqs of the decodable DDATA applied since the last DBIRTH
    hostRef,        \* history: per device, the last birth's metrics overwritten by the later DDATA
    hostBorn,       \* history: per device, TRUE iff a DBIRTH was handled and no DDEATH since
    hostExpect,     \* history: per device, <<e>> when the Sparkplug rules expect seq e next, else <<>>
    hostGaps,       \* history: per device, number of DDATA received with another seq than expected
    hostStaleDue    \* history: per device, TRUE from such a DDATA until the next DBIRTH

hostVars == <<devices, hostNow, hostPublished, hostLast, hostAccepted, hostRef, hostBorn,
              hostExpect, hostGaps, hostStaleDue>>

VARIABLES
    \* ---- FDI communication server: MQTTAdapter ----
    adDevices,      \* self.devices: device_id -> Device
    adProtobuf,     \* PROTOBUF_AVAILABLE
    adNow,          \* logical wall clock of the adapter
    adLast          \* history: the message handled by the latest step

adVars == <<adDevices, adProtobuf, adNow, adLast>>

VARIABLES
    \* ---- HighPerformanceDeviceSimulator (device-simulator/main.py) ----
    hpRunning,      \* self.running
    hpConnected,    \* self.mqtt_connected
    hpLink,         \* TRUE while the client holds a broker connection
    hpLoop,         \* TRUE while the client's network thread runs (loop_start .. loop_stop)
    hpSeq,          \* self.sparkplug_seq
    hpMainPc,       \* position of run() on the main thread
    hpTelPc,        \* position of high_frequency_telemetry_thread
    hpWire,         \* history: kind of the last message handed to the broker
    hpBirthSeq,     \* history: <<seq>> of the last DBIRTH payload published
    hpKinds,        \* history: the kinds of message handed to the broker so far
    hpBuilt,        \* history: seqs of the last two DDATA payloads built
    hpFirstData,    \* history: <<seq>> of the first DDATA published after the last DBIRTH
    hpDelivered,    \* history: seqs of the last two DDATA that reached the broker since the last DBIRTH
    hpUpAtStop,     \* history: TRUE iff the link was up when run() began to stop
    hpMgPc,         \* position of lwm2m_management_thread
    hpLwRegistered, \* self.lwm2m_registered
    hpOps,          \* number of update operations the management thread has created
    hpBulk,         \* bulk_operations: the buffered operations, by their number
    hpEnv,          \* history: the last bulk envelope passed to publish
    hpEmitted       \* history: number of operations carried by the envelopes passed to publish

hpMgVars == <<hpMgPc, hpLwRegistered, hpOps, hpBulk, hpEnv, hpEmitted>>

hpVars == <<hpRunning, hpConnected, hpLink, hpLoop, hpSeq, hpMainPc, hpTelPc,
            hpWire, hpBirthSeq, hpKinds, hpBuilt, hpFirstData, hpDelivered, hpUpAtStop, hpMgVars>>

VARIABLES
    \* ---- SmartBreakerSimulator (device-simulator/smart_breaker_simulator.py) ----
    brRunning,      \* self.running
    brConnected,    \* self.mqtt_connected
    brLink,         \* TRUE while the client holds a broker connection
    brLoop,         \* TRUE while the client's network thread runs
    brBirthPayload, \* TRUE once self.sparkplug_birth_payload is not None
    brSeq,          \* self.sparkplug_seq
    brMainPc,       \* position of the main thread: constructor, then stop()
    brCbPc,         \* position of the network thread inside _on_mqtt_connect
    brWorkers,      \* TRUE once start_worker_threads has run
    brBirthOnConn,  \* history: a DBIRTH reached the broker on the current connection
    brDataFirst,    \* history: a DDATA reached the broker on the current connection before any DBIRTH
    brKinds,        \* history: the kinds of message that reached the broker so far
    brBuilt,        \* history: seqs of the last two DDATA payloads built
    brUpAtStop,     \* history: TRUE iff the link was up when stop() ran
    brLwRegistered, \* self.lwm2m_registered
    brRegOnConn,    \* history: a registration reached the broker on the current connection
    brUpdFirst      \* history: an update reached the broker on the current connection before any registration

brLwVars == <<brLwRegistered, brRegOnConn, brUpdFirst>>

brVars == <<brRunning, brConnected, brLink, brLoop, brBirthPayload, brSeq, brMainPc,
            brCbPc, brWorkers, brBirthOnConn, brDataFirst, brKinds, brBuilt, brUpAtStop,
            brLwVars>>

VARIABLES
    \* ---- LwM2MServer (lwm2m-server/server.py) ----
    lwDevices,      \* self.devices: device id -> reference of its record in lwHeap
    lwHeap,         \* the device_info dicts ever created, by reference
    lwEvents,       \* self.recent_events
    lwNow,          \* the clock read by datetime.now() / time.time()
    lwLoop,         \* the server's own resp publications the broker still has to deliver back
    lwCmdLast,      \* history: the last command published on a cmd topic
    lwCommanded,    \* history: the <<device id, verb>> pairs a command was published for
    lwHttp,         \* history: the reply of the last HTTP command request
    lwLast          \* history: the last MQTT message handled by _on_mqtt_message

lwVars == <<lwDevices, lwHeap, lwEvents, lwNow, lwLoop, lwCmdLast, lwCommanded, lwHttp, lwLast>>

VARIABLES
    \* ---- command intake of the device simulators (executor threads) ----
    hcQueue,        \* HighPerformanceDeviceSimulator.executor: submitted, not yet started
    hcRunning,      \* ... the calls of _process_command_message in progress
    bcQueue,        \* SmartBreakerSimulator.executor: submitted, not yet started
    bcRunning,      \* ... the calls of _process_command_message in progress
    bcConfig,       \* self.config: the protection settings, by attribute
    bcState,        \* self.breaker_state: status, trip_count, alarm_status, auto_reclose_attempts
    bcRegObj,       \* self.lwm2m_registration_data["objects"]["3201"]["0"]
    dcPublished,    \* history: what the command handlers of the devices have published
    dcDone,         \* history: the commands whose processing has returned, in that order
    dcArrived       \* history: the messages delivered to the devices, in that order

dcVars == <<hcQueue, hcRunning, bcQueue, bcRunning, bcConfig, bcState, bcRegObj,
            dcPublished, dcDone, dcArrived>>

VARIABLES
    \* ---- device-description documents ----
    pkDesc,         \* the description the documents state
    pkDriver,       \* per form of the document: <<package>> once the driver has loaded it
    pkServer        \* per form: <<writable_params>> once the server has parsed it

pkVars == <<pkDesc, pkDriver, pkServer>>

VARIABLES
    \* ---- integration side: FDICommunicationServer and FDIDeviceDriver ----
    fdForm,         \* the form in which the description document on disk is written
    fsAdapters,     \* FDICommunicationServer.adapters: the protocols, in registration order
    fsRegistry,     \* per adapter object: MQTTAdapter.devices
    drvDevices,     \* FDIDeviceDriver.devices
    fdNow,          \* logical wall clock of the integration side
    fdObserved,     \* history: ids of the births and registrations delivered to the driver
    fdLast          \* history: the latest operation, its result and what it published

fdVars == <<fdForm, fsAdapters, fsRegistry, drvDevices, fdNow, fdObserved, fdLast>>

VARIABLES
    messages_bridged,   \* bridge: self.messages_bridged
    bridge_errors,      \* bridge: self.bridge_errors
    bgLast              \* bridge: the callback that ran last and what it sent

bgVars == <<messages_bridged, bridge_errors, bgLast>>

VARIABLES
    scNow,            \* telemetry thread: its clock
    scPc,             \* telemetry thread: "loop" or "sleep"
    next_send_time,   \* telemetry thread: the local next_send_time
    scWaited,         \* history: time.sleep returned since the last DDATA
    scLast,           \* history: the last pass through the loop body
    btNow,            \* breaker telemetry worker: its clock
    btPc,             \* breaker telemetry worker: "loop" or "sleep"
    btLast            \* history: the last pass of the breaker worker

scVars == <<scNow, scPc, next_send_time, scWaited, scLast, btNow, btPc, btLast>>

lastVars == <<bgVars, scVars>>

moreVars == <<dcVars, fdVars, pkVars, lastVars>>

vars == <<hostVars, adVars, hpVars, brVars, lwVars, moreVars>>

-----------------------------------------------------------------------------
(* Bounds *)

\* number of messages the host handles in one run
MaxMsgs == 3

\* number of DDATA payloads a device builds in one run
MaxBuilt == 258

\* number of update operations the management thread creates in one run
MaxOps == 12

\* the last reading of the LwM2M server's clock; every step of the server
\* takes one tick
MaxLwClock == 4

\* self.max_events, the capacity of the event list (1000 in the source,
\* scaled down so that a run fills the list)
max_events == 2

-----------------------------------------------------------------------------
(* Shared vocabulary *)

NAMESPACE == "spBv1.0"
GROUP_ID == "IIoT"

\* device ids
DevPlain == "devA"
DevPressure == "device-pressure_sensor-004"
DeviceIds == {DevPlain, DevPressure}

\* device_id.split("-") on the ids above
SplitDash(device_id) ==
    CASE device_id = DevPressure -> <<"device", "pressure_sensor", "004">>
      [] OTHER -> <<device_id>>

\* payload contents as the device put them on the wire
PayloadNames == {"Temp", "Humid"}
Absent == "absent"

\* a well-formed Sparkplug payload: seq and the carried metrics (name -> value,
\* Absent when the payload does not carry the name)
Payload(seq, temp, humid) ==
    [ok |-> TRUE, seq |-> seq,
     metrics |-> [n \in PayloadNames |-> IF n = "Temp" THEN temp ELSE humid]]

\* bytes that are no Sparkplug payload
BadPayload == [ok |-> FALSE, seq |-> 0, metrics |-> [n \in PayloadNames |-> Absent]]

\* the payloads devices send, by message type: births carry seq 0 and the
\* schema, data carries a delta, a death carries no metrics
PayloadsFor(t) ==
    CASE t = "DBIRTH" -> {Payload(0, "v1", "v1"), Payload(0, "v2", Absent)}
      [] t = "DDATA" -> {Payload(1, "v2", Absent), Payload(2, Absent, "v2"),
                         Payload(255, "v1", Absent), Payload(0, "v1", "v1"), BadPayload}
      [] OTHER -> {Payload(0, Absent, Absent)}

\* draws of time.time()/random used by the host's metric generator
Samples == {"g1", "g2"}

\* topics published on the broker: <ns>/<group>/<type>/<device_id> and one
\* five-level topic <ns>/<group>/<type>/<node>/<device_id>
Topics ==
    { <<NAMESPACE, GROUP_ID, t, d>> : t \in {"DBIRTH", "DDATA", "DDEATH"}, d \in DeviceIds }
    \cup { <<NAMESPACE, GROUP_ID, "NDATA", DevPlain>> }
    \cup { <<NAMESPACE, GROUP_ID, "DBIRTH", "node1", DevPlain>> }

-----------------------------------------------------------------------------
(* Sparkplug B host: src/sparkplug-host/main.py *)

\* _on_mqtt_connect: the six single-level subscriptions
HostSubscribed(topic) ==
    /\ Len(topic) = 4
    /\ topic[1] = NAMESPACE
    /\ topic[2] = GROUP_ID
    /\ topic[3] \in {"NBIRTH", "NDEATH", "DBIRTH", "DDEATH", "NDATA", "DDATA"}

\* device type from the device id: parts[1] when the id holds a '-'
DeviceTypeOf(device_id) ==
    LET parts == SplitDash(device_id)
    IN IF Len(parts) > 1 THEN parts[2] ELSE "industrial_sensor"

\* _parse_sparkplug_payload: names generated for a device type, in list order
GeneratedNames(device_type) ==
    CASE device_type = "temperature_sensor" ->
            <<"temperature", "humidity", "battery_level", "network_rssi", "device_health">>
      [] device_type = "pressure_sensor" ->
            <<"pressure", "differential_pressure", "battery_level", "network_rssi", "device_health">>
      [] device_type = "flow_sensor" ->
            <<"flow_rate", "totalizer", "battery_level", "network_rssi", "device_health">>
      [] device_type = "level_sensor" ->
            <<"level", "level_secondary", "battery_level", "network_rssi", "device_health">>
      [] device_type = "pump_monitor" ->
            <<"pump_speed", "power_consumption", "pump_efficiency", "discharge_pressure",
              "temperature", "vibration_x", "vibration_y", "vibration_z", "device_health">>
      [] device_type = "compressor_monitor" ->
            <<"discharge_pressure", "compression_ratio", "oil_temperature", "load_factor",
              "vibration_x", "vibration_y", "vibration_z", "device_health">>
      [] device_type = "motor_monitor" ->
            <<"motor_current", "motor_voltage", "power_factor", "bearing_temperature",
              "vibration_x", "vibration_y", "vibration_z", "device_health">>
      [] OTHER ->
            <<"primary_value", "secondary_value", "device_health">>

\* the value generated for a metric at draw s; draw g2 of a type whose health
\* depends on the reading stands for a reading in the alarm range
GeneratedValue(device_type, name, s) ==
    IF name # "device_health" THEN s
    ELSE IF device_type \in {"temperature_sensor"} \/ device_type \notin
              {"pressure_sensor", "flow_sensor", "level_sensor", "pump_monitor",
               "compressor_monitor", "motor_monitor"}
         THEN "NORMAL"
         ELSE IF s = "g1" THEN "NORMAL" ELSE "ALARM"

GeneratedDatatype(name) ==
    IF name = "device_health" THEN "string"
    ELSE IF name = "network_rssi" THEN "float" ELSE "double"

\* _parse_sparkplug_payload(payload): the payload argument is only measured
\* for the log line; the metrics come from the device type and the draw
ParseSparkplugPayload(payload, device_type, s, now) ==
    LET names == GeneratedNames(device_type) IN
    [i \in 1..Len(names) |->
        [name |-> names[i],
         value |-> GeneratedValue(device_type, names[i], s),
         datatype |-> GeneratedDatatype(names[i]),
         timestamp |-> now]]

\* the dict built by "for metric in metrics: d[metric.name] = {...}" on top of base
RECURSIVE StoreMetrics(_, _)
StoreMetrics(base, metrics) ==
    IF metrics = <<>> THEN base
    ELSE LET m == Head(metrics)
             entry == [value |-> m.value, datatype |-> m.datatype, timestamp |-> m.timestamp]
             keys == DOMAIN base \cup {m.name}
         IN StoreMetrics([k \in keys |-> IF k = m.name THEN entry ELSE base[k]],
                         Tail(metrics))

EmptyMetrics == [k \in {} |-> 0]

PutDeviceEverywhere(devs, device_id, rec) ==
    [k \in DOMAIN devs \cup {device_id} |-> rec]

\* dict assignment self.devices[device_id] = rec
PutDevice(devs, device_id, rec) ==
    [k \in DOMAIN devs \cup {device_id} |-> IF k = device_id THEN rec ELSE devs[k]]

\* _handle_device_birth: the record is built afresh from the parsed metrics
HandleDeviceBirth(devs, device_id, payload, s, now) ==
    LET device_type == DeviceTypeOf(device_id)
        metrics == ParseSparkplugPayload(payload, device_type, s, now)
    IN PutDevice(devs, device_id,
            [device_id |-> device_id,
             device_type |-> device_type,
             status |-> "online",
             birth_time |-> now,
             last_seen |-> now,
             death_time |-> 0,
             metrics |-> StoreMetrics(EmptyMetrics, metrics)])

\* _handle_device_death: only a known device changes; its metrics are kept
HandleDeviceDeath(devs, device_id, payload, now) ==
    IF device_id \in DOMAIN devs
    THEN [devs EXCEPT ![device_id].status = "offline", ![device_id].death_time = now]
    ELSE devs

\* _handle_device_data: auto-register, mark online, store the parsed metrics
HandleDeviceData(devs, device_id, payload, s, now) ==
    LET device_type == DeviceTypeOf(device_id)
        metrics == ParseSparkplugPayload(payload, device_type, s, now)
        known == IF device_id \in DOMAIN devs THEN devs
                 ELSE PutDevice(devs, device_id,
                        [device_id |-> device_id,
                         device_type |-> device_type,
                         status |-> "online",
                         birth_time |-> now,
                         last_seen |-> now,
                         death_time |-> 0,
                         metrics |-> EmptyMetrics])
    IN [known EXCEPT ![device_id].last_seen = now,
                     ![device_id].status = "online",
                     ![device_id].device_type = device_type,
                     ![device_id].metrics = StoreMetrics(known[device_id].metrics, metrics)]

\* _handle_device_message and _handle_node_message, as dispatched by _on_mqtt_message
HostDispatch(devs, topic, payload, s, now) ==
    LET message_type == topic[3]
        device_id == topic[4]
    IN CASE message_type = "DBIRTH" -> HandleDeviceBirth(devs, device_id, payload, s, now)
         [] message_type = "DDEATH" -> HandleDeviceDeath(devs, device_id, payload, now)
         [] message_type = "DDATA" -> HandleDeviceData(devs, device_id, payload, s, now)
         [] OTHER -> devs

\* the metrics a payload carries, as a name -> value map over the carried names
Carried(payload) ==
    LET names == {n \in PayloadNames : payload.metrics[n] # Absent}
    IN [n \in names |-> payload.metrics[n]]

\* m overwritten by the entries of delta
Merge(m, delta) ==
    [n \in DOMAIN m \cup DOMAIN delta |-> IF n \in DOMAIN delta THEN delta[n] ELSE m[n]]

\* History kept beside the host's state: what was received, and what the
\* Sparkplug rules make of it (expected seq 1 after a birth, seq + 1 mod 256
\* after a DDATA that carried the expected seq).
HostHistory(topic, payload) ==
    LET t == topic[3]
        d == topic[4]
        decoded == t = "DDATA" /\ payload.ok
        gap == decoded /\ hostExpect[d] # <<>> /\ payload.seq # hostExpect[d][1]
        match == decoded /\ hostExpect[d] # <<>> /\ payload.seq = hostExpect[d][1]
    IN /\ hostLast' = [topic |-> topic, payload |-> payload]
       /\ hostAccepted' =
             CASE t = "DBIRTH" -> [hostAccepted EXCEPT ![d] = <<>>]
               [] decoded -> [hostAccepted EXCEPT ![d] = Append(@, payload.seq)]
               [] OTHER -> hostAccepted
       /\ hostRef' =
             CASE t = "DBIRTH" /\ payload.ok -> [hostRef EXCEPT ![d] = Carried(payload)]
               [] decoded -> [hostRef EXCEPT ![d] = Merge(@, Carried(payload))]
               [] OTHER -> hostRef
       /\ hostBorn' =
             CASE t = "DBIRTH" -> [hostBorn EXCEPT ![d] = TRUE]
               [] t = "DDEATH" -> [hostBorn EXCEPT ![d] = FALSE]
               [] OTHER -> hostBorn
       /\ hostExpect' =
             CASE t = "DBIRTH" -> [hostExpect EXCEPT ![d] = <<1>>]
               [] match -> [hostExpect EXCEPT ![d] = <<(payload.seq + 1) % 256>>]
               [] OTHER -> hostExpect
       /\ hostGaps' = IF gap THEN [hostGaps EXCEPT ![d] = @ + 1] ELSE hostGaps
       /\ hostStaleDue' =
             CASE t = "DBIRTH" -> [hostStaleDue EXCEPT ![d] = FALSE]
               [] gap -> [hostStaleDue EXCEPT ![d] = TRUE]
               [] OTHER -> hostStaleDue

\* _on_mqtt_message for one delivered message; s is the draw of the metric
\* generator.  The host publishes nothing while handling a message.
HostOnMessage(topic, payload, s) ==
    /\ UNCHANGED <<adVars, hpVars, brVars, lwVars, moreVars>>
    /\ hostNow <= MaxMsgs
    /\ HostSubscribed(topic)
    /\ devices' = IF Len(topic) < 4 THEN devices
                  ELSE HostDispatch(devices, topic, payload, s, hostNow)
    /\ hostNow' = hostNow + 1
    /\ hostPublished' = hostPublished
    /\ HostHistory(topic, payload)

NoMsg == [topic |-> <<>>, payload |-> BadPayload]

HostInit ==
    /\ devices = [k \in {} |-> 0]
    /\ hostNow = 1
    /\ hostPublished = <<>>
    /\ hostLast = NoMsg
    /\ hostAccepted = [d \in DeviceIds |-> <<>>]
    /\ hostRef = [d \in DeviceIds |-> EmptyMetrics]
    /\ hostBorn = [d \in DeviceIds |-> FALSE]
    /\ hostExpect = [d \in DeviceIds |-> <<>>]
    /\ hostGaps = [d \in DeviceIds |-> 0]
    /\ hostStaleDue = [d \in DeviceIds |-> FALSE]

HostNext ==
    \E topic \in Topics : \E payload \in PayloadsFor(topic[3]), s \in Samples :
        HostOnMessage(topic, payload, s)

-----------------------------------------------------------------------------
(* MQTT adapter of the FDI communication server:                           *)
(* src/fdi/fdi-local/server/fdi_communication_server.py                    *)

\* MQTT topic filter match: '+' is one level, a trailing '#' is any number of
\* levels (none included)
RECURSIVE TopicMatches(_, _)
TopicMatches(filter, topic) ==
    IF filter = <<>> THEN topic = <<>>
    ELSE IF Head(filter) = "#" THEN TRUE
    ELSE IF topic = <<>> THEN FALSE
    ELSE /\ (Head(filter) = "+" \/ Head(filter) = Head(topic))
         /\ TopicMatches(Tail(filter), Tail(topic))

\* MQTTAdapter._on_mqtt_connect: the five subscriptions
AdapterFilters ==
    { <<"spBv1.0", "+", "+", "NBIRTH", "#">>,
      <<"spBv1.0", "+", "DBIRTH", "+">>,
      <<"spBv1.0", "+", "DDATA", "+">>,
      <<"spBv1.0", "+", "+", "NDEATH", "#">>,
      <<"spBv1.0", "+", "+", "DDEATH", "#">> }

AdapterSubscribed(topic) == \E f \in AdapterFilters : TopicMatches(f, topic)

\* metrics = None of the Device dataclass
NoMetrics == <<"None">>

\* the metrics given to a device that is first seen in a DDATA
DefaultBreakerMetrics ==
    [n \in {"Breaker/Status", "Breaker/CurrentPhaseA", "Breaker/VoltagePhaseA",
            "Breaker/ActivePower", "Breaker/Temperature", "Breaker/Frequency",
            "Breaker/TripCount", "Breaker/OperatingHours", "Breaker/LoadPercentage",
            "Breaker/RemoteControlEnabled", "Breaker/AutoRecloseEnabled",
            "Device/Type", "Device/Manufacturer", "Device/Model",
            "Device/SerialNumber", "Device/FirmwareVersion"} |->
        CASE n = "Breaker/Status" -> "1"
          [] n = "Breaker/CurrentPhaseA" -> "15.2"
          [] n = "Breaker/VoltagePhaseA" -> "120.5"
          [] n = "Breaker/ActivePower" -> "1829.6"
          [] n = "Breaker/Temperature" -> "45.3"
          [] n = "Breaker/Frequency" -> "60.0"
          [] n = "Breaker/TripCount" -> "0"
          [] n = "Breaker/OperatingHours" -> "8760"
          [] n = "Breaker/LoadPercentage" -> "75.5"
          [] n = "Breaker/RemoteControlEnabled" -> "True"
          [] n = "Breaker/AutoRecloseEnabled" -> "False"
          [] n = "Device/Type" -> "SmartCircuitBreaker"
          [] n = "Device/Manufacturer" -> "Smart"
          [] n = "Device/Model" -> "XSeries-SmartBreaker"
          [] n = "Device/SerialNumber" -> "ETN-XSB-001"
          [] OTHER -> "2.1.0"]

\* Device(...) with the dataclass defaults
NewDevice(device_id, device_type, now, metrics) ==
    [device_id |-> device_id, device_type |-> device_type, protocol |-> "mqtt",
     status |-> "online", last_seen |-> now, metrics |-> metrics]

\* MQTTAdapter._handle_node_birth and _handle_device_birth: create the
\* device, or mark it online; the payload is not read
AdapterHandleBirth(devs, device_id, now) ==
    IF device_id \notin DOMAIN devs
    THEN PutDevice(devs, device_id, NewDevice(device_id, "mqtt_device", now, NoMetrics))
    ELSE [devs EXCEPT ![device_id].status = "online", ![device_id].last_seen = now]

\* MQTTAdapter._handle_node_death and _handle_device_death
AdapterHandleDeath(devs, device_id) ==
    IF device_id \in DOMAIN devs
    THEN [devs EXCEPT ![device_id].status = "offline"]
    ELSE devs

\* MQTTAdapter._handle_device_data: parse the payload and merge its metrics;
\* ParseFromString raises on bytes that are no payload and nothing changes
AdapterHandleData(devs, device_id, payload, protobuf, now) ==
    IF ~protobuf \/ ~payload.ok \/ device_id \notin DOMAIN devs THEN devs
    ELSE LET old == IF devs[device_id].metrics = NoMetrics THEN EmptyMetrics
                    ELSE devs[device_id].metrics
         IN [devs EXCEPT ![device_id].metrics = Merge(old, Carried(payload)),
                         ![device_id].last_seen = now]

\* the DDATA branch of MQTTAdapter._on_mqtt_message
AdapterOnData(devs, device_id, payload, protobuf, now) ==
    LET seen == IF device_id \notin DOMAIN devs
                THEN PutDevice(devs, device_id,
                        NewDevice(device_id, "smart_breaker", now, DefaultBreakerMetrics))
                ELSE [devs EXCEPT ![device_id].last_seen = now]
    IN IF protobuf THEN AdapterHandleData(seen, device_id, payload, protobuf, now)
       ELSE [seen EXCEPT ![device_id].last_seen = now]

\* MQTTAdapter._on_mqtt_message: dispatch on topic_parts[2] and the length
AdapterDispatch(devs, topic, payload, protobuf, now) ==
    IF Len(topic) < 4 THEN devs
    ELSE LET message_type == topic[3]
             node_id == topic[4]
         IN CASE message_type = "NBIRTH" -> AdapterHandleBirth(devs, node_id, now)
              [] message_type = "DBIRTH" /\ Len(topic) >= 5 ->
                    AdapterHandleBirth(devs, topic[5], now)
              [] message_type = "DDATA" ->
                    AdapterOnData(devs, topic[4], payload, protobuf, now)
              [] message_type = "NDEATH" -> AdapterHandleDeath(devs, node_id)
              [] message_type = "DDEATH" /\ Len(topic) >= 5 ->
                    AdapterHandleDeath(devs, topic[5])
              [] OTHER -> devs

\* one message delivered to the adapter by the broker
AdapterOnMessage(topic, payload) ==
    /\ UNCHANGED <<hostVars, hpVars, brVars, lwVars, moreVars>>
    /\ adNow <= MaxMsgs
    /\ AdapterSubscribed(topic)
    /\ adDevices' = AdapterDispatch(adDevices, topic, payload, adProtobuf, adNow)
    /\ adNow' = adNow + 1
    /\ adProtobuf' = adProtobuf
    /\ adLast' = [topic |-> topic, payload |-> payload]

\* the adapter before its first message, with or without the protobuf module
AdapterInit ==
    /\ adDevices = [k \in {} |-> 0]
    /\ adProtobuf \in BOOLEAN
    /\ adNow = 1
    /\ adLast = NoMsg

\* the adapter not running
AdapterParked ==
    /\ adDevices = [k \in {} |-> 0]
    /\ adProtobuf = TRUE
    /\ adNow = 1
    /\ adLast = NoMsg

AdapterNext ==
    \E topic \in Topics : \E payload \in PayloadsFor(topic[3]) :
        AdapterOnMessage(topic, payload)

-----------------------------------------------------------------------------
(* HighPerformanceDeviceSimulator: src/device-simulator/main.py            *)

\* mqtt_client.publish: the message reaches the broker iff the link is up.
\* hpWire and hpKinds record what reached the broker, hpBirthSeq and
\* hpFirstData what the device passed to publish; hpDelivered records the
\* DDATA that reached the broker
HpPublish(kind, seq) ==
    /\ hpWire' = IF hpLink THEN kind ELSE hpWire
    /\ hpKinds' = IF hpLink THEN hpKinds \cup {kind} ELSE hpKinds
    /\ hpBirthSeq' = IF kind = "DBIRTH" THEN <<seq>> ELSE hpBirthSeq
    /\ hpFirstData' =
          CASE kind = "DBIRTH" -> <<>>
            [] kind = "DDATA" /\ hpFirstData = <<>> /\ hpBirthSeq # <<>> -> <<seq>>
            [] OTHER -> hpFirstData
    /\ hpDelivered' =
          CASE kind = "DBIRTH" -> <<>>
            [] kind = "DDATA" /\ hpLink ->
                 IF hpDelivered = <<>> THEN <<seq>> ELSE <<hpDelivered[Len(hpDelivered)], seq>>
            [] OTHER -> hpDelivered

\* run(): mqtt_client.connect(...) and loop_start(); connect raises when the
\* broker cannot be reached and run() goes to its finally block
HpRunConnect ==
    /\ UNCHANGED <<hostVars, adVars, brVars, lwVars, moreVars>>
    /\ UNCHANGED hpMgVars
    /\ hpMainPc = "connect"
    /\ \/ /\ hpLoop' = TRUE
          /\ hpMainPc' = "await"
       \/ /\ hpLoop' = hpLoop
          /\ hpMainPc' = "finally"
    /\ UNCHANGED <<hpRunning, hpConnected, hpLink, hpSeq, hpTelPc,
                   hpWire, hpBirthSeq, hpKinds, hpBuilt, hpFirstData, hpDelivered, hpUpAtStop>>

\* run(): the wait for mqtt_connected, given up after 30 tries
HpRunAwait ==
    /\ UNCHANGED <<hostVars, adVars, brVars, lwVars, moreVars>>
    /\ UNCHANGED hpMgVars
    /\ hpMainPc = "await"
    /\ hpMainPc' = IF hpConnected THEN "start" ELSE "finally"
    /\ UNCHANGED <<hpRunning, hpConnected, hpLink, hpLoop, hpSeq, hpTelPc,
                   hpWire, hpBirthSeq, hpKinds, hpBuilt, hpFirstData, hpDelivered, hpUpAtStop>>

\* run(): telemetry_thread.start() and management_thread.start()
HpRunStartThreads ==
    /\ UNCHANGED <<hostVars, adVars, brVars, lwVars, moreVars>>
    /\ hpMainPc = "start"
    /\ hpMainPc' = "alive"
    /\ hpTelPc' = "wait"
    /\ hpMgPc' = "wait"
    /\ UNCHANGED <<hpLwRegistered, hpOps, hpBulk, hpEnv, hpEmitted>>
    /\ UNCHANGED <<hpRunning, hpConnected, hpLink, hpLoop, hpSeq,
                   hpWire, hpBirthSeq, hpKinds, hpBuilt, hpFirstData, hpDelivered, hpUpAtStop>>

\* run(): KeyboardInterrupt in the keep-alive loop, then running = False and
\* the joins, which give up after five seconds
HpRunShutdown ==
    /\ UNCHANGED <<hostVars, adVars, brVars, lwVars, moreVars>>
    /\ UNCHANGED hpMgVars
    /\ hpMainPc = "alive"
    /\ hpMainPc' = "finally"
    /\ hpRunning' = FALSE
    /\ UNCHANGED <<hpConnected, hpLink, hpLoop, hpSeq, hpTelPc,
                   hpWire, hpBirthSeq, hpKinds, hpBuilt, hpFirstData, hpDelivered, hpUpAtStop>>

\* run(): finally: running = False, loop_stop(), disconnect()
HpRunFinally ==
    /\ UNCHANGED <<hostVars, adVars, brVars, lwVars, moreVars>>
    /\ UNCHANGED hpMgVars
    /\ hpMainPc = "finally"
    /\ hpMainPc' = "stopped"
    /\ hpRunning' = FALSE
    /\ hpLoop' = FALSE
    /\ hpLink' = FALSE
    /\ hpUpAtStop' = hpLink
    /\ UNCHANGED <<hpConnected, hpSeq, hpTelPc, hpWire, hpBirthSeq, hpKinds, hpBuilt, hpFirstData,
                   hpDelivered>>

\* network thread: CONNACK and _on_mqtt_connect (rc = 0)
HpOnConnect ==
    /\ UNCHANGED <<hostVars, adVars, brVars, lwVars, moreVars>>
    /\ UNCHANGED hpMgVars
    /\ hpLoop /\ ~hpLink
    /\ hpLink' = TRUE
    /\ hpConnected' = TRUE
    /\ UNCHANGED <<hpRunning, hpLoop, hpSeq, hpMainPc, hpTelPc,
                   hpWire, hpBirthSeq, hpKinds, hpBuilt, hpFirstData, hpDelivered, hpUpAtStop>>

\* the number of seq values used since the last delivered DDATA up to which
\* the connection is lost again
MaxLost == 1

\* network thread: the connection is lost and _on_mqtt_disconnect runs
HpOnDisconnect ==
    /\ UNCHANGED <<hostVars, adVars, brVars, lwVars, moreVars>>
    /\ UNCHANGED hpMgVars
    /\ hpLoop /\ hpLink
    /\ IF hpDelivered = <<>> THEN TRUE
       ELSE hpSeq - hpDelivered[Len(hpDelivered)] <= MaxLost
    /\ hpLink' = FALSE
    /\ hpConnected' = FALSE
    /\ UNCHANGED <<hpRunning, hpLoop, hpSeq, hpMainPc, hpTelPc,
                   hpWire, hpBirthSeq, hpKinds, hpBuilt, hpFirstData, hpDelivered, hpUpAtStop>>

\* telemetry thread: leave the wait for the connection
HpTelWait ==
    /\ UNCHANGED <<hostVars, adVars, brVars, lwVars, moreVars>>
    /\ UNCHANGED hpMgVars
    /\ hpTelPc = "wait"
    /\ hpConnected \/ ~hpRunning
    /\ hpTelPc' = IF ~hpRunning THEN "done" ELSE "birth"
    /\ UNCHANGED <<hpRunning, hpConnected, hpLink, hpLoop, hpSeq, hpMainPc,
                   hpWire, hpBirthSeq, hpKinds, hpBuilt, hpFirstData, hpDelivered, hpUpAtStop>>

\* telemetry thread: publish the pre-generated birth certificate (seq 0)
HpTelBirth ==
    /\ UNCHANGED <<hostVars, adVars, brVars, lwVars, moreVars>>
    /\ UNCHANGED hpMgVars
    /\ hpTelPc = "birth"
    /\ HpPublish("DBIRTH", 0)
    /\ hpTelPc' = "check"
    /\ UNCHANGED <<hpRunning, hpConnected, hpLink, hpLoop, hpSeq, hpMainPc,
                   hpBuilt, hpUpAtStop>>

\* telemetry thread: the loop condition "while self.running and self.mqtt_connected"
HpTelCheck ==
    /\ UNCHANGED <<hostVars, adVars, brVars, lwVars, moreVars>>
    /\ UNCHANGED hpMgVars
    /\ hpTelPc = "check"
    /\ hpTelPc' = IF hpRunning /\ hpConnected THEN "send" ELSE "done"
    /\ UNCHANGED <<hpRunning, hpConnected, hpLink, hpLoop, hpSeq, hpMainPc,
                   hpWire, hpBirthSeq, hpKinds, hpBuilt, hpFirstData, hpDelivered, hpUpAtStop>>

\* _create_high_frequency_telemetry_payload: payload.seq = self.sparkplug_seq,
\* then self.sparkplug_seq += 1
HpNextSeq(seq) == seq + 1

\* telemetry thread: build one payload and publish it as DDATA
HpTelSend ==
    /\ UNCHANGED <<hostVars, adVars, brVars, lwVars, moreVars>>
    /\ UNCHANGED hpMgVars
    /\ hpTelPc = "send"
    /\ hpSeq < MaxBuilt
    /\ hpSeq' = HpNextSeq(hpSeq)
    /\ hpBuilt' = IF Len(hpBuilt) < 2 THEN Append(hpBuilt, hpSeq) ELSE <<hpBuilt[2], hpSeq>>
    /\ HpPublish("DDATA", hpSeq)
    /\ hpTelPc' = "check"
    /\ UNCHANGED <<hpRunning, hpConnected, hpLink, hpLoop, hpMainPc, hpUpAtStop>>

HpInit ==
    /\ hpRunning = TRUE
    /\ hpConnected = FALSE
    /\ hpLink = FALSE
    /\ hpLoop = FALSE
    /\ hpSeq = 0
    /\ hpMainPc = "connect"
    /\ hpTelPc = "idle"
    /\ hpWire = "none"
    /\ hpBirthSeq = <<>>
    /\ hpKinds = {}
    /\ hpBuilt = <<>>
    /\ hpFirstData = <<>>
    /\ hpDelivered = <<>>
    /\ hpUpAtStop = FALSE
    /\ hpMgPc = "idle"
    /\ hpLwRegistered = FALSE
    /\ hpOps = 0
    /\ hpBulk = <<>>
    /\ hpEnv = [bulk_operations |-> <<>>, bulk_size |-> 0]
    /\ hpEmitted = 0

HpNext ==
    \/ HpRunConnect
    \/ HpRunAwait
    \/ HpRunStartThreads
    \/ HpRunShutdown
    \/ HpRunFinally
    \/ HpOnConnect
    \/ HpOnDisconnect
    \/ HpTelWait
    \/ HpTelBirth
    \/ HpTelCheck
    \/ HpTelSend

\* lwm2m_management_thread: "bulk_size = 10  # Send 10 operations at once"
bulk_size == 10

\* the variables the management thread leaves alone
hpOtherVars == <<hpRunning, hpConnected, hpLink, hpLoop, hpSeq, hpMainPc, hpTelPc,
                 hpWire, hpBirthSeq, hpKinds, hpBuilt, hpFirstData, hpDelivered, hpUpAtStop>>

\* management thread: leave the wait for the connection
HpMgWait ==
    /\ UNCHANGED <<hostVars, adVars, brVars, lwVars, moreVars>>
    /\ hpMgPc = "wait"
    /\ hpConnected \/ ~hpRunning
    /\ hpMgPc' = IF ~hpRunning THEN "done" ELSE "register"
    /\ UNCHANGED <<hpOtherVars, hpLwRegistered, hpOps, hpBulk, hpEnv, hpEmitted>>

\* management thread: publish the registration, lwm2m_registered = True
HpMgRegister ==
    /\ UNCHANGED <<hostVars, adVars, brVars, lwVars, moreVars>>
    /\ hpMgPc = "register"
    /\ hpLwRegistered' = TRUE
    /\ hpMgPc' = "check"
    /\ UNCHANGED <<hpOtherVars, hpOps, hpBulk, hpEnv, hpEmitted>>

\* management thread: the loop condition "while self.running and self.mqtt_connected"
HpMgCheck ==
    /\ UNCHANGED <<hostVars, adVars, brVars, lwVars, moreVars>>
    /\ hpMgPc = "check"
    /\ hpMgPc' = IF hpRunning /\ hpConnected THEN "operation" ELSE "done"
    /\ UNCHANGED <<hpOtherVars, hpLwRegistered, hpOps, hpBulk, hpEnv, hpEmitted>>

\* the bulk message built from the buffered operations
HpBulkData(bulk_operations) ==
    [bulk_operations |-> bulk_operations, bulk_size |-> Len(bulk_operations)]

\* the test that decides whether the buffer is sent; elapsed stands for
\* (current_time - last_bulk_send) >= bulk_interval
HpBulkDue(bulk_operations, elapsed) == Len(bulk_operations) >= bulk_size \/ elapsed

\* management thread: one loop body: create an operation, append it to
\* bulk_operations and, when the buffer is due, publish it as one envelope
\* and empty the buffer whatever publish returns
HpMgOperation(elapsed) ==
    /\ UNCHANGED <<hostVars, adVars, brVars, lwVars, moreVars>>
    /\ hpMgPc = "operation"
    /\ hpOps < MaxOps
    /\ hpOps' = hpOps + 1
    /\ LET bulk_operations == Append(hpBulk, hpOps + 1)
       IN  IF HpBulkDue(bulk_operations, elapsed)
           THEN /\ hpEnv' = HpBulkData(bulk_operations)
                /\ hpEmitted' = hpEmitted + Len(bulk_operations)
                /\ hpBulk' = <<>>
           ELSE /\ hpBulk' = bulk_operations
                /\ UNCHANGED <<hpEnv, hpEmitted>>
    /\ hpMgPc' = "check"
    /\ UNCHANGED <<hpOtherVars, hpLwRegistered>>

\* the run() steps, the network callbacks and the management thread
HpMgNext ==
    \/ HpRunConnect
    \/ HpRunAwait
    \/ HpRunStartThreads
    \/ HpRunShutdown
    \/ HpRunFinally
    \/ HpOnConnect
    \/ HpOnDisconnect
    \/ HpMgWait
    \/ HpMgRegister
    \/ HpMgCheck
    \/ \E elapsed \in BOOLEAN : HpMgOperation(elapsed)

-----------------------------------------------------------------------------
(* SmartBreakerSimulator: src/device-simulator/smart_breaker_simulator.py   *)

\* mqtt_client.publish: the message reaches the broker iff the link is up
BrPublish(kind) ==
    /\ brKinds' = IF brLink THEN brKinds \cup {kind} ELSE brKinds
    /\ brBirthOnConn' = (brBirthOnConn \/ (brLink /\ kind = "DBIRTH"))
    /\ brDataFirst' = (brDataFirst \/ (brLink /\ kind = "DDATA" /\ ~brBirthOnConn))

\* __init__ -> setup_mqtt_client: connect() and loop_start(); an exception
\* from connect() is logged and the constructor goes on without the loop
BrSetupMqttClient ==
    /\ UNCHANGED <<hostVars, adVars, hpVars, lwVars, moreVars>>
    /\ UNCHANGED brLwVars
    /\ brMainPc = "setup"
    /\ brLoop' \in BOOLEAN
    /\ brMainPc' = "pregen"
    /\ UNCHANGED <<brRunning, brConnected, brLink, brBirthPayload, brSeq, brCbPc,
                   brWorkers, brBirthOnConn, brDataFirst, brKinds, brBuilt, brUpAtStop>>

\* __init__ -> pre_generate_payloads: sparkplug_birth_payload is set
BrPreGeneratePayloads ==
    /\ UNCHANGED <<hostVars, adVars, hpVars, lwVars, moreVars>>
    /\ UNCHANGED brLwVars
    /\ brMainPc = "pregen"
    /\ brBirthPayload' = TRUE
    /\ brMainPc' = "start"
    /\ UNCHANGED <<brRunning, brConnected, brLink, brLoop, brSeq, brCbPc,
                   brWorkers, brBirthOnConn, brDataFirst, brKinds, brBuilt, brUpAtStop>>

\* __init__ -> start_worker_threads
BrStartWorkerThreads ==
    /\ UNCHANGED <<hostVars, adVars, hpVars, lwVars, moreVars>>
    /\ UNCHANGED brLwVars
    /\ brMainPc = "start"
    /\ brWorkers' = TRUE
    /\ brMainPc' = "running"
    /\ UNCHANGED <<brRunning, brConnected, brLink, brLoop, brBirthPayload, brSeq, brCbPc,
                   brBirthOnConn, brDataFirst, brKinds, brBuilt, brUpAtStop>>

\* network thread: CONNACK, then _on_mqtt_connect sets mqtt_connected = True
BrOnConnectFlag ==
    /\ UNCHANGED <<hostVars, adVars, hpVars, lwVars, moreVars>>
    /\ brLoop /\ ~brLink /\ brCbPc = "idle"
    /\ brLink' = TRUE
    /\ brConnected' = TRUE
    /\ brCbPc' = "flagged"
    /\ brBirthOnConn' = FALSE
    /\ brDataFirst' = FALSE
    /\ brRegOnConn' = FALSE
    /\ brUpdFirst' = FALSE
    /\ UNCHANGED brLwRegistered
    /\ UNCHANGED <<brRunning, brLoop, brBirthPayload, brSeq, brMainPc,
                   brWorkers, brKinds, brBuilt, brUpAtStop>>

\* network thread: the rest of _on_mqtt_connect: the subscriptions, then
\* _send_sparkplug_birth, which publishes only if the payload is set
BrOnConnectBirth ==
    /\ UNCHANGED <<hostVars, adVars, hpVars, lwVars, moreVars>>
    /\ UNCHANGED brLwVars
    /\ brCbPc = "flagged"
    /\ brCbPc' = "idle"
    /\ IF brBirthPayload
       THEN BrPublish("DBIRTH")
       ELSE UNCHANGED <<brKinds, brBirthOnConn, brDataFirst>>
    /\ UNCHANGED <<brRunning, brConnected, brLink, brLoop, brBirthPayload, brSeq,
                   brMainPc, brWorkers, brBuilt, brUpAtStop>>

\* network thread: the connection is lost and _on_mqtt_disconnect runs
BrOnDisconnect ==
    /\ UNCHANGED <<hostVars, adVars, hpVars, lwVars, moreVars>>
    /\ UNCHANGED brLwVars
    /\ brLoop /\ brLink /\ brCbPc = "idle"
    /\ brLink' = FALSE
    /\ brConnected' = FALSE
    /\ UNCHANGED <<brRunning, brLoop, brBirthPayload, brSeq, brMainPc, brCbPc,
                   brWorkers, brBirthOnConn, brDataFirst, brKinds, brBuilt, brUpAtStop>>

\* _send_sparkplug_telemetry: self.sparkplug_seq = (self.sparkplug_seq + 1) % 256
BrNextSeq(seq) == (seq + 1) % 256

\* _telemetry_worker: one iteration with mqtt_connected set:
\* _send_sparkplug_telemetry builds a payload with the current seq and publishes it
BrTelemetryWorker ==
    /\ UNCHANGED <<hostVars, adVars, hpVars, lwVars, moreVars>>
    /\ UNCHANGED brLwVars
    /\ brWorkers /\ brRunning /\ brConnected
    /\ BrPublish("DDATA")
    /\ brBuilt' = IF Len(brBuilt) < 2 THEN Append(brBuilt, brSeq) ELSE <<brBuilt[2], brSeq>>
    /\ brSeq' = BrNextSeq(brSeq)
    /\ UNCHANGED <<brRunning, brConnected, brLink, brLoop, brBirthPayload, brMainPc,
                   brCbPc, brWorkers, brUpAtStop>>

\* _lwm2m_worker: one iteration with mqtt_connected set: the registration
\* when lwm2m_registered is not set (_send_lwm2m_registration sets it), else
\* an update
BrLwm2mWorker ==
    /\ UNCHANGED <<hostVars, adVars, hpVars, lwVars, moreVars>>
    /\ brWorkers /\ brRunning /\ brConnected
    /\ IF ~brLwRegistered
       THEN /\ brLwRegistered' = TRUE
            /\ brRegOnConn' = (brRegOnConn \/ brLink)
            /\ UNCHANGED brUpdFirst
       ELSE /\ brUpdFirst' = (brUpdFirst \/ (brLink /\ ~brRegOnConn))
            /\ UNCHANGED <<brLwRegistered, brRegOnConn>>
    /\ UNCHANGED <<brRunning, brConnected, brLink, brLoop, brBirthPayload, brSeq, brMainPc,
                   brCbPc, brWorkers, brBirthOnConn, brDataFirst, brKinds, brBuilt, brUpAtStop>>

\* stop(): running = False, loop_stop() (which waits for a running callback),
\* disconnect()
BrStop ==
    /\ UNCHANGED <<hostVars, adVars, hpVars, lwVars, moreVars>>
    /\ UNCHANGED brLwVars
    /\ brMainPc = "running" /\ brCbPc = "idle"
    /\ brMainPc' = "stopped"
    /\ brRunning' = FALSE
    /\ brLoop' = FALSE
    /\ brLink' = FALSE
    /\ brUpAtStop' = brLink
    /\ UNCHANGED <<brConnected, brBirthPayload, brSeq, brCbPc, brWorkers,
                   brBirthOnConn, brDataFirst, brKinds, brBuilt>>

BrInit ==
    /\ brRunning = TRUE
    /\ brConnected = FALSE
    /\ brLink = FALSE
    /\ brLoop = FALSE
    /\ brBirthPayload = FALSE
    /\ brSeq = 0
    /\ brMainPc = "setup"
    /\ brCbPc = "idle"
    /\ brWorkers = FALSE
    /\ brBirthOnConn = FALSE
    /\ brDataFirst = FALSE
    /\ brKinds = {}
    /\ brBuilt = <<>>
    /\ brUpAtStop = FALSE
    /\ brLwRegistered = FALSE
    /\ brRegOnConn = FALSE
    /\ brUpdFirst = FALSE

BrNext ==
    \/ BrSetupMqttClient
    \/ BrPreGeneratePayloads
    \/ BrStartWorkerThreads
    \/ BrOnConnectFlag
    \/ BrOnConnectBirth
    \/ BrOnDisconnect
    \/ BrTelemetryWorker
    \/ BrLwm2mWorker
    \/ BrStop

-----------------------------------------------------------------------------
(* LwM2MServer: src/lwm2m-server/server.py                                  *)

LwIds == {"dev-A", "dev-B"}

\* reg_data.get("lifetime", 86400)
DefaultLifetime == 86400

\* a JSON object keyed by object id; {} is the empty object
NoObjects == [k \in {} |-> ""]

\* A message body. json = FALSE: bytes json.loads rejects. Otherwise a JSON
\* object; a key that is absent is <<>>, a key that is present is <<value>>.
LwPayload(endpoint, lifetime, bindingMode, version, objects, body) ==
    [json |-> TRUE, endpoint |-> endpoint, lifetime |-> lifetime,
     bindingMode |-> bindingMode, version |-> version, objects |-> objects,
     body |-> body]

LwNotJson ==
    [json |-> FALSE, endpoint |-> <<>>, lifetime |-> <<>>, bindingMode |-> <<>>,
     version |-> <<>>, objects |-> <<>>, body |-> <<>>]

\* the registration documents, updates and responses devices send
LwRegPayloads ==
    { LwPayload(<<"ep-1">>, <<1>>, <<"U">>, <<"1.1">>, <<[k \in {"3"} |-> "a"]>>, <<>>),
      LwPayload(<<>>, <<>>, <<>>, <<>>, <<>>, <<>>),
      LwNotJson }

LwUpdatePayloads ==
    { LwPayload(<<>>, <<>>, <<>>, <<>>, <<[k \in {"4"} |-> "b"]>>, <<>>),
      LwPayload(<<>>, <<>>, <<>>, <<>>, <<>>, <<>>),
      LwNotJson }

LwRespPayloads ==
    { LwPayload(<<>>, <<>>, <<>>, <<>>, <<>>, <<"content">>), LwNotJson }

LwEmptyPayload == LwPayload(<<>>, <<>>, <<>>, <<>>, <<>>, <<>>)

LwPayloadsFor(topic) ==
    CASE topic[3] = "reg" -> LwRegPayloads
      [] topic[3] = "update" -> LwUpdatePayloads
      [] topic[3] = "resp" -> LwRespPayloads
      [] OTHER -> {LwEmptyPayload}

\* the topics devices publish on: reg, update, dereg, the response to a read
\* command, and the bulk envelope of the high-performance simulator
LwTopics ==
    { <<"lwm2m", d, t>> : d \in LwIds, t \in {"reg", "update", "dereg", "bulk"} }
    \cup { <<"lwm2m", d, "resp", "read">> : d \in LwIds }

\* _on_mqtt_connect: the four subscriptions
LwFilters ==
    { <<"lwm2m", "+", "reg">>, <<"lwm2m", "+", "update">>,
      <<"lwm2m", "+", "resp", "+">>, <<"lwm2m", "+", "dereg">> }

LwSubscribed(topic) == \E f \in LwFilters : TopicMatches(f, topic)

\* dict.get(key, default)
LwGet(opt, default) == IF opt = <<>> THEN default ELSE opt[1]

\* the data of an event: a reference to a device_info dict, the dict built
\* by _handle_device_deregistration, or the dict built by _handle_command_response
LwRecordData(ref) ==
    [kind |-> "record", ref |-> ref, device_id |-> "", command_type |-> "", response |-> ""]

LwDeregData(device_id, ref) ==
    [kind |-> "dereg", ref |-> ref, device_id |-> device_id, command_type |-> "", response |-> ""]

LwResponseData(device_id, command_type, response) ==
    [kind |-> "response", ref |-> 0, device_id |-> device_id,
     command_type |-> command_type, response |-> response]

\* an event list that refuses a new event when it is full
EmitDeviceEventDropNewest(events, event_type, data, now) ==
    IF Len(events) >= max_events
    THEN events
    ELSE Append(events, [event_type |-> event_type, timestamp |-> now, data |-> data])

\* emit_device_event: append, then drop the oldest event when the list is
\* longer than max_events
EmitDeviceEvent(events, event_type, data, now) ==
    LET appended == Append(events, [event_type |-> event_type, timestamp |-> now, data |-> data])
    IN  IF Len(appended) > max_events THEN Tail(appended) ELSE appended

\* dict.update on the objects of a record
LwObjectsUpdate(objects, delta) ==
    [k \in (DOMAIN objects) \cup (DOMAIN delta) |->
        IF k \in DOMAIN delta THEN delta[k] ELSE objects[k]]

\* self.devices[device_id] = ref
LwPut(devs, device_id, ref) ==
    [d \in (DOMAIN devs) \cup {device_id} |-> IF d = device_id THEN ref ELSE devs[d]]

\* del self.devices[device_id]
LwDel(devs, device_id) == [d \in (DOMAIN devs) \ {device_id} |-> devs[d]]

\* The state a handler works on: the registry, the heap of records, the
\* event list and the messages it publishes.
LwState(devs, heap, events, out) ==
    [devices |-> devs, heap |-> heap, events |-> events, out |-> out]

\* _handle_device_registration: the device_info dict built from reg_data
LwDeviceInfo(device_id, payload, now) ==
    [device_id |-> device_id,
     endpoint |-> LwGet(payload.endpoint, device_id),
     lifetime |-> LwGet(payload.lifetime, DefaultLifetime),
     binding_mode |-> LwGet(payload.bindingMode, "UQ"),
     lwm2m_version |-> LwGet(payload.version, "1.2"),
     objects |-> LwGet(payload.objects, NoObjects),
     registered_at |-> now,
     last_update |-> now,
     status |-> "registered"]

\* _handle_device_registration: self.devices[device_id] = device_info, the
\* device_registered event (its data is the same dict) and the acknowledgement
LwStoreRegistration(s, device_id, device_info, now) ==
    LET ref == Len(s.heap) + 1
    IN  LwState(LwPut(s.devices, device_id, ref),
                Append(s.heap, device_info),
                EmitDeviceEvent(s.events, "device_registered", LwRecordData(ref), now),
                Append(s.out, [topic |-> <<"lwm2m", device_id, "resp", "reg">>,
                               payload |-> LwPayload(<<>>, <<>>, <<>>, <<>>, <<>>, <<"registered">>)]))

\* a registration handler that treats the registration of a known device as
\* an update of its status
LwHandleDeviceRegistrationAsUpdate(s, device_id, payload, now) ==
    IF ~payload.json THEN s
    ELSE LwStoreRegistration(s, device_id,
             [LwDeviceInfo(device_id, payload, now) EXCEPT
                 !.status = IF device_id \in DOMAIN s.devices THEN "active" ELSE @],
             now)

\* _handle_device_registration
LwHandleDeviceRegistration(s, device_id, payload, now) ==
    IF ~payload.json THEN s
    ELSE LwStoreRegistration(s, device_id, LwDeviceInfo(device_id, payload, now), now)

\* an update handler that registers a device it does not know
LwHandleDeviceUpdateRegistering(s, device_id, payload, now) ==
    IF ~payload.json THEN s
    ELSE IF device_id \notin DOMAIN s.devices
    THEN LwStoreRegistration(s, device_id, LwDeviceInfo(device_id, payload, now), now)
    ELSE LET ref == s.devices[device_id]
             updated == [s.heap[ref] EXCEPT
                            !.objects = IF payload.objects = <<>> THEN @
                                        ELSE LwObjectsUpdate(@, payload.objects[1]),
                            !.last_update = now,
                            !.status = "active"]
         IN  LwState(s.devices,
                     [s.heap EXCEPT ![ref] = updated],
                     EmitDeviceEvent(s.events, "device_updated", LwRecordData(ref), now),
                     Append(s.out, [topic |-> <<"lwm2m", device_id, "resp", "update">>,
                                    payload |-> LwPayload(<<>>, <<>>, <<>>, <<>>, <<>>, <<"updated">>)]))

\* _handle_device_update
LwHandleDeviceUpdate(s, device_id, payload, now) ==
    IF device_id \notin DOMAIN s.devices \/ ~payload.json THEN s
    ELSE LET ref == s.devices[device_id]
             device == s.heap[ref]
             updated == [device EXCEPT
                            !.objects = IF payload.objects = <<>> THEN @
                                        ELSE LwObjectsUpdate(@, payload.objects[1]),
                            !.last_update = now,
                            !.status = "active"]
         IN  LwState(s.devices,
                     [s.heap EXCEPT ![ref] = updated],
                     EmitDeviceEvent(s.events, "device_updated", LwRecordData(ref), now),
                     Append(s.out, [topic |-> <<"lwm2m", device_id, "resp", "update">>,
                                    payload |-> LwPayload(<<>>, <<>>, <<>>, <<>>, <<>>, <<"updated">>)]))

\* a response handler that evicts the device when the response cannot be parsed
LwHandleCommandResponseEvicting(s, device_id, command_type, payload, now) ==
    IF ~payload.json
    THEN LwState(LwDel(s.devices, device_id), s.heap, s.events, s.out)
    ELSE LwState(s.devices,
                 IF device_id \in DOMAIN s.devices
                 THEN [s.heap EXCEPT ![s.devices[device_id]].last_update = now]
                 ELSE s.heap,
                 EmitDeviceEvent(s.events, "command_response",
                                 LwResponseData(device_id, command_type, LwGet(payload.body, "")), now),
                 s.out)

\* _handle_command_response
LwHandleCommandResponse(s, device_id, command_type, payload, now) ==
    IF ~payload.json THEN s
    ELSE LwState(s.devices,
                 IF device_id \in DOMAIN s.devices
                 THEN [s.heap EXCEPT ![s.devices[device_id]].last_update = now]
                 ELSE s.heap,
                 EmitDeviceEvent(s.events, "command_response",
                                 LwResponseData(device_id, command_type, LwGet(payload.body, "")), now),
                 s.out)

\* a deregistration handler that emits no event
LwHandleDeviceDeregistrationSilent(s, device_id, now) ==
    IF device_id \notin DOMAIN s.devices THEN s
    ELSE LwState(LwDel(s.devices, device_id), s.heap, s.events, s.out)

\* _handle_device_deregistration
LwHandleDeviceDeregistration(s, device_id, now) ==
    IF device_id \notin DOMAIN s.devices THEN s
    ELSE LwState(LwDel(s.devices, device_id),
                 s.heap,
                 EmitDeviceEvent(s.events, "device_deregistered",
                                 LwDeregData(device_id, s.devices[device_id]), now),
                 s.out)

\* _on_mqtt_message: device_id = topic_parts[1], message_type = topic_parts[2]
LwDispatch(s, topic, payload, now) ==
    IF Len(topic) < 3 THEN s
    ELSE CASE topic[3] = "reg" -> LwHandleDeviceRegistration(s, topic[2], payload, now)
           [] topic[3] = "update" -> LwHandleDeviceUpdate(s, topic[2], payload, now)
           [] topic[3] = "resp" ->
                IF Len(topic) > 3
                THEN LwHandleCommandResponse(s, topic[2], topic[4], payload, now)
                ELSE s
           [] topic[3] = "dereg" -> LwHandleDeviceDeregistration(s, topic[2], now)
           [] OTHER -> s

\* what lwLast holds before any message was handled
LwNoMsg == [topic |-> <<>>, payload |-> LwNotJson, own |-> FALSE, repeat |-> FALSE, at |-> 0]

\* _on_mqtt_message for one delivered message. The acknowledgements the
\* handler publishes on resp topics match the server's own subscription
\* "lwm2m/+/resp/+", so the broker queues them for delivery back to the server.
LwDeliver(topic, payload, own, rest) ==
    LET s == LwDispatch(LwState(lwDevices, lwHeap, lwEvents, <<>>), topic, payload, lwNow)
        back == SelectSeq(s.out, LAMBDA m : LwSubscribed(m.topic))
    IN  /\ lwDevices' = s.devices
        /\ lwHeap' = s.heap
        /\ lwEvents' = s.events
        /\ lwLoop' = rest \o back
        /\ lwNow' = lwNow + 1
        /\ lwLast' = [of |-> IF own THEN lwLast.of
                             ELSE [lwLast.of EXCEPT ![topic[2]] = <<topic, payload>>],
                      cur |-> [topic |-> topic, payload |-> payload, own |-> own,
                               repeat |-> (~own /\ lwLast.of[topic[2]] = <<topic, payload>>),
                               at |-> lwNow]]
        /\ UNCHANGED <<lwCmdLast, lwCommanded, lwHttp>>

\* a message published by a device is delivered to the server
LwOnMessage(topic, payload) ==
    /\ UNCHANGED <<hostVars, adVars, hpVars, brVars, moreVars>>
    /\ lwNow < MaxLwClock
    /\ LwSubscribed(topic)
    /\ LwDeliver(topic, payload, FALSE, lwLoop)

\* one of the server's own acknowledgements is delivered back to the server
LwOnOwnMessage ==
    /\ UNCHANGED <<hostVars, adVars, hpVars, brVars, moreVars>>
    /\ lwNow < MaxLwClock
    /\ lwLoop # <<>>
    /\ LwDeliver(Head(lwLoop).topic, Head(lwLoop).payload, TRUE, Tail(lwLoop))

\* the keys of the command document built by read_resource, write_resource
\* and execute_resource
LwCommandKeys(verb) ==
    {"objectId", "instanceId", "resourceId", "timestamp"}
    \cup (CASE verb = "write" -> {"value"}
            [] verb = "execute" -> {"arguments"}
            [] OTHER -> {})

\* POST /api/devices/<device_id>/<verb>: 404 for an unknown device, else the
\* command is published and "command_sent" is returned at once
LwCommand(verb, device_id) ==
    /\ UNCHANGED <<hostVars, adVars, hpVars, brVars, moreVars>>
    /\ lwNow < MaxLwClock
    /\ lwNow' = lwNow + 1
    /\ IF device_id \notin DOMAIN lwDevices
       THEN /\ lwHttp' = [code |-> 404, status |-> "Device not found"]
            /\ UNCHANGED <<lwCmdLast, lwCommanded>>
       ELSE /\ lwHttp' = [code |-> 200, status |-> "command_sent"]
            /\ lwCmdLast' = [topic |-> <<"lwm2m", device_id, "cmd", verb>>,
                             keys |-> LwCommandKeys(verb), timestamp |-> lwNow]
            /\ lwCommanded' = lwCommanded \cup {<<device_id, verb>>}
    /\ UNCHANGED <<lwDevices, lwHeap, lwEvents, lwLoop, lwLast>>

\* time passes with no message
LwTick ==
    /\ UNCHANGED <<hostVars, adVars, hpVars, brVars, moreVars>>
    /\ lwNow < MaxLwClock
    /\ lwNow' = lwNow + 1
    /\ UNCHANGED <<lwDevices, lwHeap, lwEvents, lwLoop, lwCmdLast, lwCommanded, lwHttp, lwLast>>

\* LwM2MServer.__init__
LwInit ==
    /\ lwDevices = [d \in {} |-> 0]
    /\ lwHeap = <<>>
    /\ lwEvents = <<>>
    /\ lwNow = 1
    /\ lwLoop = <<>>
    /\ lwCmdLast = [topic |-> <<>>, keys |-> {}, timestamp |-> 0]
    /\ lwCommanded = {}
    /\ lwHttp = [code |-> 0, status |-> ""]
    /\ lwLast = [of |-> [d \in LwIds |-> <<>>], cur |-> LwNoMsg]

LwNext ==
    \/ \E topic \in LwTopics : \E payload \in LwPayloadsFor(topic) : LwOnMessage(topic, payload)
    \/ LwOnOwnMessage
    \/ \E verb \in {"read", "write", "execute"}, d \in LwIds : LwCommand(verb, d)
    \/ LwTick

-----------------------------------------------------------------------------
(* Command intake of the device simulators: src/device-simulator/main.py   *)
(* and src/device-simulator/smart_breaker_simulator.py.  paho's network    *)
(* thread hands every message to a ThreadPoolExecutor; the calls of         *)
(* _process_command_message run on its worker threads, one step of the      *)
(* model per access to the state the threads share.                         *)

\* the device ids of the two simulators
HcDeviceId == "dev-A"
BcDeviceId == "dev-B"

\* ThreadPoolExecutor(max_workers=4)
max_workers == 4

\* ("word" in topic) on the topics of the model, whose levels contain a
\* word only by being it
InTopic(word, topic) == \E i \in 1..Len(topic) : topic[i] = word

\* a JSON value: a number, a string or null
JNum(n) == [t |-> "num", n |-> n, s |-> ""]

JStr(s) == [t |-> "str", n |-> 0, s |-> s]

JNull == [t |-> "null", n |-> 0, s |-> ""]

\* the strings of the model that float() accepts, with their value
NumericStrings == [s \in {"75"} |-> 75]

\* float(value): ok = FALSE is the ValueError of a string that is no number
Float(value) ==
    CASE value.t = "num" -> [ok |-> TRUE, v |-> value.n]
      [] value.t = "str" /\ value.s \in DOMAIN NumericStrings ->
            [ok |-> TRUE, v |-> NumericStrings[value.s]]
      [] OTHER -> [ok |-> FALSE, v |-> 0]

\* one entry of "settings": a JSON object with a "value" key, or a bare
\* JSON value (dict = FALSE), which has no .get
SettingObject(value) == [dict |-> TRUE, has |-> TRUE, value |-> value]

SettingBare(value) == [dict |-> FALSE, has |-> FALSE, value |-> value]

Setting(name, data) == [name |-> name, data |-> data]

\* A command body.  json: json.loads accepts it, and then keys are the keys
\* of the object; proto: Payload.ParseFromString accepts it, and then
\* metrics are the names of its metrics whose boolean_value is true.
DcBody(keys, command, template, settings) ==
    [json |-> TRUE, proto |-> FALSE, keys |-> keys, command |-> command,
     template |-> template, settings |-> settings, metrics |-> <<>>]

DcNotJson ==
    [json |-> FALSE, proto |-> FALSE, keys |-> {}, command |-> "",
     template |-> "", settings |-> <<>>, metrics |-> <<>>]

DcProtobuf(metrics) ==
    [json |-> FALSE, proto |-> TRUE, keys |-> {}, command |-> "",
     template |-> "", settings |-> <<>>, metrics |-> metrics]

\* the command document of read_resource / write_resource / execute_resource
DcServerCommand(verb) == DcBody(LwCommandKeys(verb), "", "", <<>>)

\* {"command": command, "timestamp": ...}
DcCommand(command) == DcBody({"command", "timestamp"}, command, "", <<>>)

\* {"command": "configure", "template": ..., "settings": ..., "timestamp": ...}
DcConfigure(template, settings) ==
    DcBody({"command", "settings", "timestamp"}
             \cup (IF template = "" THEN {} ELSE {"template"}),
           "configure", template, settings)

\* command_data.get(key, "") for the keys "command" and "template"
DcGet(payload, key) ==
    IF key \notin payload.keys THEN ""
    ELSE IF key = "command" THEN payload.command ELSE payload.template

\* a submitted call of _process_command_message(topic, payload)
NewTask(n, topic, payload) ==
    [n |-> n, topic |-> topic, payload |-> payload, pc |-> "start", fn |-> "",
     todo |-> <<>>]

\* ---- HighPerformanceDeviceSimulator ----

\* _on_mqtt_connect: the subscriptions
HcFilters ==
    { <<"lwm2m", HcDeviceId, "cmd", "+">>,
      <<NAMESPACE, GROUP_ID, "DCMD", HcDeviceId>>,
      <<NAMESPACE, GROUP_ID, "DDATA", "+">> }

\* _process_command_message: what the call did.  _handle_lwm2m_command and
\* _handle_sparkplug_command write a log line and nothing else.
HcProcess(topic, payload) ==
    IF InTopic("lwm2m", topic)
    THEN [outcome |-> IF Len(topic) >= 4 THEN "logged" ELSE "ignored", out |-> <<>>]
    ELSE IF InTopic("DCMD", topic)
    THEN [outcome |-> "logged", out |-> <<>>]
    ELSE [outcome |-> "ignored", out |-> <<>>]

\* ---- SmartBreakerSimulator ----

\* _on_mqtt_connect: the subscriptions
BcFilters ==
    { <<"lwm2m", BcDeviceId, "cmd", "#">>,
      <<"spBv1.0", GROUP_ID, "DCMD", BcDeviceId>>,
      <<"spBv1.0", GROUP_ID, "DDATA", "+">> }

\* BreakerConfig: the protection settings and their defaults
BreakerConfig ==
    [overcurrent_pickup |-> 100, overcurrent_delay |-> 1000,
     ground_fault_pickup |-> 5, ground_fault_delay |-> 500,
     arc_fault_pickup |-> 50, arc_fault_delay |-> 100,
     thermal_pickup |-> 120, thermal_delay |-> 300]

\* BreakerState.__init__: the fields the command handlers use
BreakerState ==
    [status |-> 1, trip_count |-> 0, alarm_status |-> 0, auto_reclose_attempts |-> 0]

\* the resources of object 3201 that follow the configuration
Object3201(config) ==
    [r \in {"0", "1", "2", "3", "4", "5", "6", "7", "8"} |->
        CASE r = "0" -> config.overcurrent_pickup
          [] r = "1" -> config.overcurrent_delay
          [] r = "2" -> config.ground_fault_pickup
          [] r = "3" -> config.ground_fault_delay
          [] r = "4" -> config.arc_fault_pickup
          [] r = "5" -> config.arc_fault_delay
          [] r = "6" -> config.thermal_pickup
          [] r = "7" -> config.thermal_delay
          [] OTHER -> config.overcurrent_pickup * 8]

\* the attribute a setting name is assigned to
ConfigAttr ==
    [n \in {"OvercurrentPickup", "OvercurrentDelay", "GroundFaultPickup",
            "GroundFaultDelay", "ArcFaultPickup", "ArcFaultDelay",
            "ThermalPickup", "ThermalDelay"} |->
        CASE n = "OvercurrentPickup" -> "overcurrent_pickup"
          [] n = "OvercurrentDelay" -> "overcurrent_delay"
          [] n = "GroundFaultPickup" -> "ground_fault_pickup"
          [] n = "GroundFaultDelay" -> "ground_fault_delay"
          [] n = "ArcFaultPickup" -> "arc_fault_pickup"
          [] n = "ArcFaultDelay" -> "arc_fault_delay"
          [] n = "ThermalPickup" -> "thermal_pickup"
          [] OTHER -> "thermal_delay"]

\* _handle_fdi_configuration: the function chosen for a template name
ApplyFunction(template) ==
    CASE template = "StandardProtection" -> "_apply_standard_protection_settings"
      [] template = "HighSensitivity" -> "_apply_high_sensitivity_settings"
      [] template = "MotorProtection" -> "_apply_motor_protection_settings"
      [] OTHER -> "_apply_generic_settings"

\* the setting names each _apply_*_settings assigns
AppliedNames(fn) ==
    CASE fn \in {"_apply_standard_protection_settings", "_apply_high_sensitivity_settings"} ->
            {"OvercurrentPickup", "OvercurrentDelay", "GroundFaultPickup",
             "GroundFaultDelay", "ArcFaultPickup", "ArcFaultDelay"}
      [] fn = "_apply_motor_protection_settings" ->
            {"OvercurrentPickup", "OvercurrentDelay", "ThermalPickup", "ThermalDelay"}
      [] OTHER -> DOMAIN ConfigAttr

\* one turn of the loop of _apply_*_settings; ok = FALSE when it raises
ApplySetting(fn, setting, config) ==
    IF ~setting.data.dict THEN [ok |-> FALSE, config |-> config]
    ELSE IF ~setting.data.has \/ setting.data.value.t = "null"
    THEN [ok |-> TRUE, config |-> config]
    ELSE IF setting.name \notin AppliedNames(fn) THEN [ok |-> TRUE, config |-> config]
    ELSE LET f == Float(setting.data.value) IN
         IF f.ok
         THEN [ok |-> TRUE, config |-> [config EXCEPT ![ConfigAttr[setting.name]] = f.v]]
         ELSE [ok |-> FALSE, config |-> config]

\* what the device publishes
DcMessage(from, topic, kind, status, trip_count, config) ==
    [from |-> from, topic |-> topic, kind |-> kind, status |-> status,
     trip_count |-> trip_count, config |-> config]

\* _send_trip_notification: the same notification on two topics
SendTripNotification(state) ==
    << DcMessage(BcDeviceId, <<"spBv1.0", GROUP_ID, "DDATA", BcDeviceId>>, "breaker_trip",
                 state.status, state.trip_count, <<>>),
       DcMessage(BcDeviceId, <<"lwm2m", BcDeviceId, "event">>, "breaker_trip",
                 state.status, state.trip_count, <<>>) >>

\* _send_current_configuration
SendCurrentConfiguration(config) ==
    << DcMessage(BcDeviceId, <<"lwm2m", BcDeviceId, "config">>, "configuration",
                 0, 0, <<config>>) >>

\* alarm_status |= 0x01
SetAlarmBit(alarm_status) ==
    IF alarm_status % 2 = 1 THEN alarm_status ELSE alarm_status + 1

\* the state a step of a worker thread leaves: the call (done: it returned),
\* the shared objects and the messages it published
BcKeep(task, config, state, regobj) ==
    [done |-> FALSE, task |-> task, outcome |-> "", config |-> config,
     state |-> state, regobj |-> regobj, out |-> <<>>]

BcReturn(r, outcome) == [r EXCEPT !.done = TRUE, !.outcome = outcome]

BcGoto(r, pc) == [r EXCEPT !.task.pc = pc]

\* _trip_breaker after its test of status.  auto_reclose_enabled is False
\* and never assigned, so no timer is started.
TripBreaker(r) ==
    LET st == [r.state EXCEPT !.status = 2, !.trip_count = @ + 1,
                              !.alarm_status = SetAlarmBit(@)]
    IN  [r EXCEPT !.state = st, !.out = SendTripNotification(st)]

\* the statements of one command word, up to the next access after a test
BcCommand(r, command) ==
    CASE command \in {"trip", "Command/Trip"} ->
            IF r.state.status = 1 THEN BcGoto(r, "trip") ELSE BcReturn(r, "executed")
      [] command \in {"close", "Command/Close"} ->
            IF r.state.status = 2 THEN BcGoto(r, "close") ELSE BcReturn(r, "executed")
      [] command \in {"reset", "Command/Reset"} ->
            BcReturn([r EXCEPT !.state.alarm_status = 0], "executed")
      [] OTHER -> BcReturn(r, "executed")

\* _handle_lwm2m_command
HandleLwm2mCommand(r) ==
    LET payload == r.task.payload
        command == DcGet(payload, "command")
    IN  IF ~payload.json THEN BcReturn(r, "error")
        ELSE IF command = "configure"
        THEN LET q == [r EXCEPT !.task.fn = ApplyFunction(DcGet(payload, "template")),
                                !.task.todo = payload.settings]
             IN  BcGoto(q, IF payload.settings = <<>> THEN "update" ELSE "apply")
        ELSE IF command = "get_configuration"
        THEN BcReturn([r EXCEPT !.out = SendCurrentConfiguration(r.config)], "executed")
        ELSE BcCommand(r, command)

\* _handle_sparkplug_command, for a payload of at most one metric
HandleSparkplugCommand(r) ==
    LET payload == r.task.payload IN
    IF ~payload.proto THEN BcReturn(r, "error")
    ELSE IF payload.metrics = <<>> THEN BcReturn(r, "executed")
    ELSE BcCommand(r, payload.metrics[1])

\* one step of a call of _process_command_message on its worker thread
BcStep(task, config, state, regobj) ==
    LET r == BcKeep(task, config, state, regobj) IN
    CASE task.pc = "start" ->
            IF InTopic("lwm2m", task.topic) THEN HandleLwm2mCommand(r)
            ELSE IF InTopic("DCMD", task.topic) THEN HandleSparkplugCommand(r)
            ELSE BcReturn(r, "ignored")
      [] task.pc = "trip" -> BcReturn(TripBreaker(r), "executed")
      [] task.pc = "close" ->
            BcReturn([r EXCEPT !.state.status = 1, !.state.auto_reclose_attempts = 0],
                     "executed")
      [] task.pc = "apply" ->
            LET a == ApplySetting(task.fn, Head(task.todo), config) IN
            IF ~a.ok THEN BcReturn(r, "error")
            ELSE LET q == [r EXCEPT !.config = a.config, !.task.todo = Tail(@)]
                 IN  IF Tail(task.todo) = <<>> THEN BcGoto(q, "update") ELSE q
      [] OTHER -> \* "update": _update_lwm2m_configuration, then the log lines
            BcReturn([r EXCEPT !.regobj = Object3201(config)], "executed")

\* ---- the messages delivered to the devices ----

\* number of messages delivered to the devices in a behaviour
MaxCmds == 2

Verbs == {"read", "write", "execute"}

ConfigureA ==
    DcConfigure("", << Setting("OvercurrentPickup", SettingObject(JNum(150))),
                       Setting("OvercurrentDelay", SettingObject(JNum(500))) >>)

ConfigureB ==
    DcConfigure("HighSensitivity",
                << Setting("OvercurrentPickup", SettingObject(JNum(50))),
                   Setting("OvercurrentDelay", SettingObject(JStr("75"))) >>)

ConfigureBad ==
    DcConfigure("", << Setting("OvercurrentPickup", SettingObject(JNum(80))),
                       Setting("OvercurrentDelay", SettingObject(JStr("fast"))) >>)

ConfigureBare ==
    DcConfigure("", << Setting("OvercurrentPickup", SettingBare(JNum(150))) >>)

\* topic and body of the messages the broker may deliver to the first simulator
HcMessages ==
    { <<(<<"lwm2m", HcDeviceId, "cmd", verb>>), DcServerCommand(verb)>> : verb \in Verbs }
    \cup { <<(<<NAMESPACE, GROUP_ID, "DCMD", HcDeviceId>>), DcProtobuf(<<"Command/Trip">>)>> }

\* ... and to the breaker
BcMessages ==
    { <<(<<"lwm2m", BcDeviceId, "cmd", verb>>), DcServerCommand(verb)>> : verb \in Verbs }
    \cup { <<(<<"lwm2m", BcDeviceId, "cmd", "execute">>), body>> :
              body \in { DcCommand("trip"), DcCommand("close"), DcCommand("reset"),
                         DcCommand("get_configuration"), ConfigureA, ConfigureB,
                         ConfigureBad, ConfigureBare, DcNotJson } }
    \cup { <<(<<"spBv1.0", GROUP_ID, "DCMD", BcDeviceId>>), DcProtobuf(<<m>>)>> :
              m \in {"Command/Trip", "Command/Close"} }

DcArrival(device, topic, payload) ==
    [device |-> device, topic |-> topic, payload |-> payload]

DcEntry(device, task, outcome) ==
    [device |-> device, n |-> task.n, topic |-> task.topic, payload |-> task.payload,
     outcome |-> outcome]

dcOthers == <<hostVars, adVars, hpVars, brVars, lwVars, fdVars, pkVars, lastVars>>

hcExec == <<hcQueue, hcRunning>>

bcExec == <<bcQueue, bcRunning>>

bcObjects == <<bcConfig, bcState, bcRegObj>>

\* HighPerformanceDeviceSimulator._on_mqtt_message
HcOnMessage(topic, payload) ==
    /\ UNCHANGED dcOthers
    /\ Len(dcArrived) < MaxCmds
    /\ \E f \in HcFilters : TopicMatches(f, topic)
    /\ hcQueue' = Append(hcQueue, NewTask(Len(dcArrived) + 1, topic, payload))
    /\ dcArrived' = Append(dcArrived, DcArrival(HcDeviceId, topic, payload))
    /\ UNCHANGED <<hcRunning, bcExec, bcObjects, dcPublished, dcDone>>

\* a worker thread of the executor takes the oldest submitted call
HcWorkerTake ==
    /\ UNCHANGED dcOthers
    /\ hcQueue # <<>>
    /\ Cardinality(hcRunning) < max_workers
    /\ hcRunning' = hcRunning \cup {Head(hcQueue)}
    /\ hcQueue' = Tail(hcQueue)
    /\ UNCHANGED <<bcExec, bcObjects, dcPublished, dcDone, dcArrived>>

\* HighPerformanceDeviceSimulator._process_command_message
HcWorkerRun ==
    /\ UNCHANGED dcOthers
    /\ \E task \in hcRunning :
          LET p == HcProcess(task.topic, task.payload) IN
          /\ hcRunning' = hcRunning \ {task}
          /\ dcPublished' = dcPublished \o p.out
          /\ dcDone' = Append(dcDone, DcEntry(HcDeviceId, task, p.outcome))
    /\ UNCHANGED <<hcQueue, bcExec, bcObjects, dcArrived>>

\* SmartBreakerSimulator._on_mqtt_message
BcOnMessage(topic, payload) ==
    /\ UNCHANGED dcOthers
    /\ Len(dcArrived) < MaxCmds
    /\ \E f \in BcFilters : TopicMatches(f, topic)
    /\ bcQueue' = Append(bcQueue, NewTask(Len(dcArrived) + 1, topic, payload))
    /\ dcArrived' = Append(dcArrived, DcArrival(BcDeviceId, topic, payload))
    /\ UNCHANGED <<bcRunning, hcExec, bcObjects, dcPublished, dcDone>>

\* a worker thread of the executor takes the oldest submitted call
BcWorkerTake ==
    /\ UNCHANGED dcOthers
    /\ bcQueue # <<>>
    /\ Cardinality(bcRunning) < max_workers
    /\ bcRunning' = bcRunning \cup {Head(bcQueue)}
    /\ bcQueue' = Tail(bcQueue)
    /\ UNCHANGED <<hcExec, bcObjects, dcPublished, dcDone, dcArrived>>

\* SmartBreakerSimulator._process_command_message: one step of one call
BcWorkerStep ==
    /\ UNCHANGED dcOthers
    /\ \E task \in bcRunning :
          LET r == BcStep(task, bcConfig, bcState, bcRegObj) IN
          /\ bcRunning' = (bcRunning \ {task}) \cup (IF r.done THEN {} ELSE {r.task})
          /\ bcConfig' = r.config
          /\ bcState' = r.state
          /\ bcRegObj' = r.regobj
          /\ dcPublished' = dcPublished \o r.out
          /\ dcDone' = IF r.done THEN Append(dcDone, DcEntry(BcDeviceId, task, r.outcome))
                       ELSE dcDone
    /\ UNCHANGED <<bcQueue, hcExec, dcArrived>>

DcInit ==
    /\ hcQueue = <<>>
    /\ hcRunning = {}
    /\ bcQueue = <<>>
    /\ bcRunning = {}
    /\ bcConfig = BreakerConfig
    /\ bcState = BreakerState
    /\ bcRegObj = Object3201(BreakerConfig)
    /\ dcPublished = <<>>
    /\ dcDone = <<>>
    /\ dcArrived = <<>>

DcNext ==
    \/ \E m \in HcMessages : HcOnMessage(m[1], m[2])
    \/ HcWorkerTake
    \/ HcWorkerRun
    \/ \E m \in BcMessages : BcOnMessage(m[1], m[2])
    \/ BcWorkerTake
    \/ BcWorkerStep

-----------------------------------------------------------------------------
(* Device-description documents: src/fdi/fdi-device-driver/fdi_driver.py   *)
(* (_load_fdi_package) and fdi_communication_server.py                      *)
(* (parse_fdi_writable_parameters).  A document is the element tree that    *)
(* ET.parse returns.  An element is in the FDI namespace (ns) or in none;   *)
(* name and value are its attributes of that name, "" when it has none.     *)

El(ns, tag, name, value, text, kids) ==
    [ns |-> ns, tag |-> tag, name |-> name, value |-> value, text |-> text, kids |-> kids]

\* the children of elem that element.findall(path) selects, in document
\* order: path "fdi:tag" with the namespace map (qualified), or path "tag"
FindAll(elem, qualified, tag) ==
    SelectSeq(elem.kids, LAMBDA k : k.tag = tag /\ k.ns = qualified)

\* element.find(path): <<>> is None
Find(elem, qualified, tag) ==
    LET found == FindAll(elem, qualified, tag) IN
    IF found = <<>> THEN <<>> ELSE <<found[1]>>

\* the concatenation of a sequence of sequences
RECURSIVE Flatten(_)
Flatten(ss) == IF ss = <<>> THEN <<>> ELSE Head(ss) \o Flatten(Tail(ss))

\* every element below elem, in document order
RECURSIVE Descendants(_)
Descendants(elem) ==
    Flatten([i \in 1..Len(elem.kids) |-> <<elem.kids[i]>> \o Descendants(elem.kids[i])])

\* element.findall('.//fdi:tag', ns)
FindAllBelow(elem, tag) ==
    SelectSeq(Descendants(elem), LAMBDA k : k.tag = tag /\ k.ns)

\* element.findall('.//fdi:outer/fdi:tag', ns)
FindAllBelowIn(elem, outer, tag) ==
    Flatten([i \in 1..Len(FindAllBelow(elem, outer)) |->
                FindAll(FindAllBelow(elem, outer)[i], TRUE, tag)])

\* a dict built by assigning d[key(e)] = val(e) for the elements in order:
\* a later element of the same key replaces the earlier one
DictOf(elems, key(_), val(_)) ==
    [k \in {key(elems[i]) : i \in 1..Len(elems)} |->
        val(elems[CHOOSE i \in 1..Len(elems) :
                    /\ key(elems[i]) = k
                    /\ \A j \in (i + 1)..Len(elems) : key(elems[j]) # k])]

NameOf(elem) == elem.name

\* ---- the description a document states, and its two written forms ----

FdiFunction(name, parameters) == [name |-> name, parameters |-> parameters]

FdiTemplate(name, description, settings) ==
    [name |-> name, description |-> description, settings |-> settings]

FdiSetting(name, value) == [name |-> name, value |-> value]

Description(device_type, parameters, functions, commands, templates) ==
    [device_type |-> device_type, parameters |-> parameters, functions |-> functions,
     commands |-> commands, templates |-> templates]

Forms == {"namespaced", "unnamespaced"}

\* the document of a description: every element in the FDI namespace, or
\* every element in none
Document(form, d) ==
    LET ns == (form = "namespaced")
        Leaf(tag, name, value, text) == El(ns, tag, name, value, text, <<>>)
        Params(names) == [i \in 1..Len(names) |-> Leaf("Parameter", names[i], "", "")]
        Holder(tag, f) == El(ns, tag, f.name, "", "", Params(f.parameters))
        Tmpl(t) ==
            El(ns, "Template", t.name, "", "",
               << Leaf("Description", "", "", t.description),
                  El(ns, "Settings", "", "", "",
                     [i \in 1..Len(t.settings) |->
                         Leaf("Setting", t.settings[i].name, t.settings[i].value, "")]) >>)
    IN  El(ns, "Device", "", "", "",
           << El(ns, "DeviceIdentity", "", "", "",
                 << Leaf("DeviceType", "", "", d.device_type) >>),
              El(ns, "DeviceCapabilities", "", "", "",
                 << El(ns, "DeviceParameters", "", "", "", Params(d.parameters)),
                    El(ns, "DeviceFunctions", "", "", "",
                       [i \in 1..Len(d.functions) |-> Holder("Function", d.functions[i])]),
                    El(ns, "DeviceCommands", "", "", "",
                       [i \in 1..Len(d.commands) |-> Holder("Command", d.commands[i])]) >>),
              El(ns, "DeviceConfiguration", "", "", "",
                 << El(ns, "ConfigurationTemplates", "", "", "",
                       [i \in 1..Len(d.templates) |-> Tmpl(d.templates[i])]) >>) >>)

\* ---- FDIDeviceDriver._load_fdi_package ----

\* find("fdi:tag", namespace), and find(tag) when that is None
FindWithFallback(elem, tag) ==
    IF Find(elem, TRUE, tag) # <<>> THEN Find(elem, TRUE, tag) ELSE Find(elem, FALSE, tag)

\* _get_text(element, tag, namespace)
GetText(elem, tag, namespace) ==
    LET child == IF namespace THEN FindWithFallback(elem, tag) ELSE Find(elem, FALSE, tag)
    IN  IF child = <<>> THEN "" ELSE child[1].text

NoDict == [k \in {} |-> 0]

\* _parse_device_parameters: the names of self.device_package.parameters
ParseDeviceParameters(capabilities) ==
    LET parameters_elem == Find(capabilities, FALSE, "DeviceParameters") IN
    IF parameters_elem = <<>> THEN {}
    ELSE LET ps == FindAll(parameters_elem[1], FALSE, "Parameter")
         IN  {ps[i].name : i \in 1..Len(ps)}

\* the settings dict of one Template element
TemplateSettings(template_elem) ==
    LET settings_elem == Find(template_elem, FALSE, "Settings") IN
    IF settings_elem = <<>> THEN NoDict
    ELSE LET Val(e) == [value |-> e.value]
         IN  DictOf(FindAll(settings_elem[1], FALSE, "Setting"), NameOf, Val)

\* _parse_configuration_templates: self.device_package.configuration_templates
ParseConfigurationTemplates(configuration) ==
    LET templates_elem == Find(configuration, FALSE, "ConfigurationTemplates") IN
    IF templates_elem = <<>> THEN NoDict
    ELSE LET Val(e) == [description |-> GetText(e, "Description", FALSE),
                        settings |-> TemplateSettings(e)]
         IN  DictOf(FindAll(templates_elem[1], FALSE, "Template"), NameOf, Val)

\* _load_fdi_package: ok = FALSE when it raises
LoadFdiPackage(root) ==
    LET device_identity == FindWithFallback(root, "DeviceIdentity")
        capabilities == FindWithFallback(root, "DeviceCapabilities")
        configuration == FindWithFallback(root, "DeviceConfiguration")
    IN  IF device_identity = <<>>
        THEN [ok |-> FALSE, device_type |-> "", parameters |-> {}, templates |-> NoDict]
        ELSE [ok |-> TRUE,
              device_type |-> GetText(device_identity[1], "DeviceType", TRUE),
              parameters |-> IF capabilities = <<>> THEN {}
                             ELSE ParseDeviceParameters(capabilities[1]),
              templates |-> IF configuration = <<>> THEN NoDict
                            ELSE ParseConfigurationTemplates(configuration[1])]

\* ---- FDICommunicationServer.parse_fdi_writable_parameters ----

\* the conversion of a Setting's value attribute: bool, float or int, and
\* the string itself when int() raises
SettingValue(setting_value) ==
    CASE setting_value = "true" -> [t |-> "bool", n |-> 1, s |-> ""]
      [] setting_value = "false" -> [t |-> "bool", n |-> 0, s |-> ""]
      [] setting_value \in DOMAIN NumericStrings -> JNum(NumericStrings[setting_value])
      [] OTHER -> JStr(setting_value)

\* the names of the Parameter elements below a Function or Command
ParameterNames(holder) ==
    LET ps == FindAllBelow(holder, "Parameter") IN {ps[i].name : i \in 1..Len(ps)}

ParseFdiWritableParameters(root) ==
    LET Pars(e) == ParameterNames(e)
        Sets(e) ==
            LET Val(s) == SettingValue(s.value)
                desc == Find(e, TRUE, "Description")
            IN  [description |-> IF desc = <<>> THEN "" ELSE desc[1].text,
                 settings |-> DictOf(FindAllBelow(e, "Setting"), NameOf, Val)]
    IN  [functions |-> DictOf(FindAllBelowIn(root, "DeviceFunctions", "Function"), NameOf, Pars),
         commands |-> DictOf(FindAllBelowIn(root, "DeviceCommands", "Command"), NameOf, Pars),
         templates |-> DictOf(FindAllBelowIn(root, "ConfigurationTemplates", "Template"),
                              NameOf, Sets)]

\* ---- the descriptions and the loading steps ----

TemplateHigh ==
    FdiTemplate("HighSensitivity", "High sensitivity",
                << FdiSetting("OvercurrentPickup", "75"), FdiSetting("Enabled", "true") >>)

TemplateMotor ==
    FdiTemplate("MotorProtection", "Motor", << FdiSetting("ThermalDelay", "slow") >>)

PkDescriptions ==
    { Description("SmartCircuitBreaker", parameters, functions, commands, templates) :
        parameters \in { <<>>, <<"OvercurrentPickup">>, <<"OvercurrentPickup", "SerialNumber">> },
        functions \in { <<>>, << FdiFunction("ProtectionSettings", <<"OvercurrentPickup">>) >> },
        commands \in { <<>>, << FdiFunction("configure", <<"TripDelay">>) >> },
        templates \in { <<>>, <<TemplateHigh>>, <<TemplateHigh, TemplateMotor>> } }

\* the description of the breaker that the integration side is started with
SmartBreakerDescription ==
    Description("SmartCircuitBreaker", <<"OvercurrentPickup", "SerialNumber">>,
                << FdiFunction("ProtectionSettings", <<"OvercurrentPickup">>) >>,
                << FdiFunction("configure", <<"TripDelay">>) >>,
                <<TemplateHigh>>)

pkOthers == <<hostVars, adVars, hpVars, brVars, lwVars, dcVars, fdVars, lastVars>>

\* FDIDeviceDriver(fdi_package_path) on the document written in the form
PkDriverLoad(form) ==
    /\ UNCHANGED pkOthers
    /\ pkDriver[form] = <<>>
    /\ pkDriver' = [pkDriver EXCEPT ![form] = <<LoadFdiPackage(Document(form, pkDesc))>>]
    /\ UNCHANGED <<pkDesc, pkServer>>

\* parse_fdi_writable_parameters on the document written in the form
PkServerParse(form) ==
    /\ UNCHANGED pkOthers
    /\ pkServer[form] = <<>>
    /\ pkServer' = [pkServer EXCEPT ![form] =
                       <<ParseFdiWritableParameters(Document(form, pkDesc))>>]
    /\ UNCHANGED <<pkDesc, pkDriver>>

PkInit ==
    /\ pkDesc \in PkDescriptions
    /\ pkDriver = [f \in Forms |-> <<>>]
    /\ pkServer = [f \in Forms |-> <<>>]

PkParked ==
    /\ pkDesc = SmartBreakerDescription
    /\ pkDriver = [f \in Forms |-> <<>>]
    /\ pkServer = [f \in Forms |-> <<>>]

PkNext ==
    \/ \E form \in Forms : PkDriverLoad(form)
    \/ \E form \in Forms : PkServerParse(form)

-----------------------------------------------------------------------------
(* Integration side: FDICommunicationServer with its MQTTAdapter objects   *)
(* (fdi_communication_server.py) and FDIDeviceDriver (fdi_driver.py).       *)
(* A JSON object is the function from its keys to their values.             *)

FdIds == {HcDeviceId, BcDeviceId}

\* the adapter objects, by the protocol name they are registered under
Protocols == {"mqtt", "mqtt-2"}

\* the clock value at which the integration side stops receiving messages
MaxFdClock == 3

\* a message handed to the broker: the topic and the keys of its JSON body
FdMessage(topic, command, template, parameters, settings) ==
    [topic |-> topic, command |-> command, template |-> template,
     parameters |-> parameters, settings |-> settings]

\* a call without a JSON argument
FdNoArgs == [json |-> TRUE, dict |-> [k \in {} |-> 0]]

\* the result of an operation and what the operation published; data is the
\* returned value inside a sequence, <<>> for {} and for none; served is
\* the protocol of the adapter that answered, "" when none did
FdResult(by, op, device_id, status, message, data, served, published) ==
    [by |-> by, op |-> op, device_id |-> device_id, name |-> "", args |-> FdNoArgs,
     status |-> status, message |-> message, data |-> data, served |-> served,
     published |-> published]

\* ... of a call made with a command or template name and a JSON object
FdCall(name, args, result) == [result EXCEPT !.name = name, !.args = args]

\* the parameters_json argument: text json.loads rejects, or an object
ParamNames == {"OvercurrentPickup", "TripDelay", "SerialNumber"}

ParamValue ==
    [n \in ParamNames |->
        CASE n = "OvercurrentPickup" -> 120 [] n = "TripDelay" -> 5 [] OTHER -> 7]

Restrict(dict, keys) == [n \in (DOMAIN dict \cap keys) |-> dict[n]]

ParametersJson ==
    { [json |-> TRUE, dict |-> Restrict(ParamValue, S)] : S \in SUBSET ParamNames }
    \cup { [json |-> FALSE, dict |-> NoDict] }

\* ... of SendDeviceCommand: text json.loads rejects, or {}
CommandJson == { j \in ParametersJson : j.dict = NoDict }

\* ---- FDICommunicationServer ----

\* MQTTAdapter.send_device_command, the client being started: what it publishes
AdapterSendDeviceCommand(devs, device_id, command, parameters) ==
    IF device_id \in DOMAIN devs
    THEN << FdMessage(<<"spBv1.0", "IIoT", "NCMD", device_id>>, command, "",
                      parameters, NoDict) >>
    ELSE <<>>

\* FDICommunicationServer.send_device_command: the adapter registered first
\* is called, and the method returns when that call returns
ServerSendDeviceCommand(adapters, registry, device_id, command, parameters) ==
    IF adapters = <<>> THEN [served |-> "", published |-> <<>>]
    ELSE [served |-> adapters[1],
          published |-> AdapterSendDeviceCommand(registry[adapters[1]], device_id,
                                                 command, parameters)]

\* MQTTAdapter.get_device_data: <<>> is {}
AdapterGetDeviceData(devs, device_id) ==
    IF device_id \in DOMAIN devs THEN <<devs[device_id]>> ELSE <<>>

\* FDICommunicationServer.get_device_data: the data of the first adapter, in
\* registration order, that returns any
RECURSIVE ServerGetDeviceData(_, _, _)
ServerGetDeviceData(adapters, registry, device_id) ==
    IF adapters = <<>> THEN [served |-> "", data |-> <<>>]
    ELSE LET data == AdapterGetDeviceData(registry[Head(adapters)], device_id) IN
         IF data # <<>> THEN [served |-> Head(adapters), data |-> data]
         ELSE ServerGetDeviceData(Tail(adapters), registry, device_id)

\* FDICommunicationServer.discover_devices: the returned list is the lists of
\* the adapters one after the other; here the ids each adapter contributed
ServerDiscoverDevices(adapters, registry) ==
    [i \in 1..Len(adapters) |->
        [protocol |-> adapters[i],
         devices |-> {d \in FdIds : d \in DOMAIN registry[adapters[i]]}]]

IsWritableAlways(writable_params, param_name) == TRUE

\* the test of _set_device_parameters_method: the name is a parameter of
\* some function or of some command of writable_params
IsWritable(writable_params, param_name) ==
    \/ \E f \in DOMAIN writable_params.functions :
          param_name \in writable_params.functions[f]
    \/ \E c \in DOMAIN writable_params.commands :
          param_name \in writable_params.commands[c]

\* _set_device_parameters_method: validated_params
ValidatedParams(writable_params, parameters) ==
    Restrict(parameters, {n \in DOMAIN parameters : IsWritable(writable_params, n)})

\* parse_fdi_writable_parameters of the registered package, for each form
\* the document on disk can have
WritableParameters ==
    [form \in Forms |-> ParseFdiWritableParameters(Document(form, SmartBreakerDescription))]

fdOthers == <<hostVars, adVars, hpVars, brVars, lwVars, dcVars, pkVars, lastVars>>

fdSetup == <<fdForm, fsAdapters, fsRegistry, drvDevices, fdNow, fdObserved>>

\* FDICommunicationServer.register_adapter
FsRegisterAdapter(protocol) ==
    /\ UNCHANGED fdOthers
    /\ \A i \in 1..Len(fsAdapters) : fsAdapters[i] # protocol
    /\ fsAdapters' = Append(fsAdapters, protocol)
    /\ UNCHANGED <<fdForm, fsRegistry, drvDevices, fdNow, fdObserved, fdLast>>

\* MQTTAdapter._on_mqtt_message of one adapter object, for a DBIRTH
FsAdapterBirth(protocol, device_id) ==
    /\ UNCHANGED fdOthers
    /\ fdNow < MaxFdClock
    /\ fdNow' = fdNow + 1
    /\ fsRegistry' = [fsRegistry EXCEPT
                         ![protocol] = AdapterHandleBirth(@, device_id, fdNow)]
    /\ UNCHANGED <<fdForm, fsAdapters, drvDevices, fdObserved, fdLast>>

\* OPC UA method SetDeviceParameters
FsSetDeviceParameters(device_id, parameters_json) ==
    /\ UNCHANGED fdOthers
    /\ UNCHANGED fdSetup
    /\ LET writable_params == WritableParameters[fdForm]
           validated_params == ValidatedParams(writable_params, parameters_json.dict)
           sent == ServerSendDeviceCommand(fsAdapters, fsRegistry, device_id,
                                           "set_configuration", validated_params)
           Result(status, message, served, published) ==
               FdCall("", parameters_json,
                      FdResult("server", "SetDeviceParameters", device_id, status,
                               message, <<>>, served, published))
       IN  fdLast' =
              IF ~parameters_json.json THEN Result("error", "json", "", <<>>)
              ELSE IF validated_params # NoDict
              THEN Result("success", "Configuration applied", sent.served, sent.published)
              ELSE Result("error", "No valid writable parameters", "", <<>>)

\* OPC UA method SendDeviceCommand
FsSendDeviceCommand(device_id, command, parameters_json) ==
    /\ UNCHANGED fdOthers
    /\ UNCHANGED fdSetup
    /\ LET sent == ServerSendDeviceCommand(fsAdapters, fsRegistry, device_id,
                                           command, parameters_json.dict)
           Result(status, message, served, published) ==
               FdCall(command, parameters_json,
                      FdResult("server", "SendDeviceCommand", device_id, status,
                               message, <<>>, served, published))
       IN  fdLast' =
              IF ~parameters_json.json THEN Result("error", "json", "", <<>>)
              ELSE Result("success", "", sent.served, sent.published)

\* OPC UA method GetDeviceParameters: the JSON of get_device_data, {} when
\* no adapter has data
FsGetDeviceParameters(device_id) ==
    /\ UNCHANGED fdOthers
    /\ UNCHANGED fdSetup
    /\ LET got == ServerGetDeviceData(fsAdapters, fsRegistry, device_id) IN
       fdLast' = FdResult("server", "GetDeviceParameters", device_id, "", "",
                          got.data, got.served, <<>>)

\* OPC UA method GetDeviceConfiguration: FDICommunicationServer has no
\* attribute devices, so (device_id in self.devices) raises AttributeError
\* and the except clause returns the JSON of {}
FsGetDeviceConfiguration(device_id) ==
    /\ UNCHANGED fdOthers
    /\ UNCHANGED fdSetup
    /\ fdLast' = FdResult("server", "GetDeviceConfiguration", device_id, "", "",
                          <<>>, "", <<>>)

\* OPC UA method DiscoverDevices
FsDiscoverDevices ==
    /\ UNCHANGED fdOthers
    /\ UNCHANGED fdSetup
    /\ fdLast' = FdResult("server", "DiscoverDevices", "", "", "",
                          ServerDiscoverDevices(fsAdapters, fsRegistry), "", <<>>)

\* ---- FDIDeviceDriver ----

\* _on_mqtt_connect: the subscriptions
DrvFilters ==
    { <<"spBv1.0", "+", "DBIRTH", "+">>, <<"lwm2m", "+", "reg">>,
      <<"lwm2m", "+", "config">>, <<"lwm2m", "+", "status">> }

\* a message body: bytes that do not decode to JSON text, or a JSON object
\* with its "configuration" and "status" keys ("" when the key is absent)
DrvPayload(json, configuration, status) ==
    [json |-> json, configuration |-> configuration, status |-> status]

DrvPayloads ==
    { DrvPayload(FALSE, "", ""), DrvPayload(TRUE, "", ""),
      DrvPayload(TRUE, "applied", "degraded") }

DrvTopics ==
    UNION { { <<"spBv1.0", GROUP_ID, "DBIRTH", d>>, <<"lwm2m", d, "reg">>,
              <<"lwm2m", d, "config">>, <<"lwm2m", d, "status">> } : d \in FdIds }

\* FDIDevice(device_id, device_package), then online and seen now
DrvSeen(devs, device_id, now) ==
    IF device_id \in DOMAIN devs
    THEN [devs EXCEPT ![device_id].communication_status = "online",
                      ![device_id].last_seen = now]
    ELSE PutDevice(devs, device_id,
                   [communication_status |-> "online", last_seen |-> now,
                    current_configuration |-> "{}"])

\* _on_mqtt_message with the four handlers: self.devices afterwards
DrvHandle(devs, topic, payload, now) ==
    IF InTopic("DBIRTH", topic)
    THEN IF Len(topic) >= 4 /\ payload.json THEN DrvSeen(devs, topic[4], now) ELSE devs
    ELSE IF InTopic("lwm2m", topic) /\ InTopic("reg", topic)
    THEN IF Len(topic) >= 2 /\ payload.json THEN DrvSeen(devs, topic[2], now) ELSE devs
    ELSE IF InTopic("lwm2m", topic) /\ InTopic("config", topic)
    THEN IF Len(topic) >= 2 /\ topic[2] \in DOMAIN devs /\ payload.json
         THEN [devs EXCEPT ![topic[2]].current_configuration =
                  IF payload.configuration = "" THEN "{}" ELSE payload.configuration]
         ELSE devs
    ELSE IF InTopic("lwm2m", topic) /\ InTopic("status", topic)
    THEN IF Len(topic) >= 2 /\ topic[2] \in DOMAIN devs /\ payload.json
         THEN [devs EXCEPT ![topic[2]].communication_status =
                  IF payload.status = "" THEN "online" ELSE payload.status,
                           ![topic[2]].last_seen = now]
         ELSE devs
    ELSE devs

\* the package the driver is constructed with, for each form the document
\* on disk can have
DrvPackage ==
    [form \in Forms |-> LoadFdiPackage(Document(form, SmartBreakerDescription))]

\* the "settings" of the configure message of a template: for each setting
\* of the template the object {"value": ..., "units": ...}
TemplateMessageSettings(template_name) ==
    LET settings == DrvPackage[fdForm].templates[template_name].settings IN
    [n \in DOMAIN settings |-> SettingObject(JStr(settings[n].value))]

DrvCommandTopic(device_id) == <<"lwm2m", device_id, "command">>

DrvOnMessage(topic, payload) ==
    /\ UNCHANGED fdOthers
    /\ fdNow < MaxFdClock
    /\ \E f \in DrvFilters : TopicMatches(f, topic)
    /\ fdNow' = fdNow + 1
    /\ drvDevices' = DrvHandle(drvDevices, topic, payload, fdNow)
    /\ fdObserved' = fdObserved \cup
          (IF topic[3] = "DBIRTH" THEN {topic[4]}
           ELSE IF topic[3] = "reg" THEN {topic[2]} ELSE {})
    /\ UNCHANGED <<fdForm, fsAdapters, fsRegistry, fdLast>>

\* discover_devices
DrvDiscoverDevices ==
    /\ UNCHANGED fdOthers
    /\ UNCHANGED fdSetup
    /\ fdLast' = FdResult("driver", "discover_devices", "", "", "",
                          << [devices |-> {d \in FdIds : d \in DOMAIN drvDevices}] >>, "",
                          << FdMessage(<<"fdi", "discovery", "request">>, "discover", "",
                                       NoDict, NoDict) >>)

\* get_device_parameters
DrvGetDeviceParameters(device_id) ==
    /\ UNCHANGED fdOthers
    /\ UNCHANGED fdSetup
    /\ fdLast' =
          IF device_id \notin DOMAIN drvDevices
          THEN FdResult("driver", "get_device_parameters", device_id, "", "",
                        << [configuration |-> "{}"] >>, "", <<>>)
          ELSE FdResult("driver", "get_device_parameters", device_id, "", "",
                        << [configuration |-> drvDevices[device_id].current_configuration] >>,
                        "",
                        << FdMessage(DrvCommandTopic(device_id), "get_configuration", "",
                                     NoDict, NoDict) >>)

\* set_device_parameters
DrvSetDeviceParameters(device_id, parameters) ==
    /\ UNCHANGED fdOthers
    /\ UNCHANGED fdSetup
    /\ LET Result(status, published) ==
               FdCall("", [json |-> TRUE, dict |-> parameters],
                      FdResult("driver", "set_device_parameters", device_id, status, "",
                               <<>>, "", published))
           settings == [n \in DOMAIN parameters |-> SettingBare(JNum(parameters[n]))]
       IN  fdLast' =
              IF device_id \notin DOMAIN drvDevices THEN Result("False", <<>>)
              ELSE Result("True", << FdMessage(DrvCommandTopic(device_id), "configure", "",
                                               NoDict, settings) >>)

\* apply_configuration_template
DrvApplyConfigurationTemplate(device_id, template_name) ==
    /\ UNCHANGED fdOthers
    /\ UNCHANGED fdSetup
    /\ LET Result(status, published) ==
               FdCall(template_name, FdNoArgs,
                      FdResult("driver", "apply_configuration_template", device_id, status,
                               "", <<>>, "", published))
       IN  fdLast' =
              IF \/ device_id \notin DOMAIN drvDevices
                 \/ template_name \notin DOMAIN DrvPackage[fdForm].templates
              THEN Result("False", <<>>)
              ELSE Result("True", << FdMessage(DrvCommandTopic(device_id), "configure",
                                               template_name, NoDict,
                                               TemplateMessageSettings(template_name)) >>)

\* send_command
DrvSendCommand(device_id, command) ==
    /\ UNCHANGED fdOthers
    /\ UNCHANGED fdSetup
    /\ LET Result(status, published) ==
               FdCall(command, FdNoArgs,
                      FdResult("driver", "send_command", device_id, status, "", <<>>, "",
                               published))
       IN  fdLast' =
              IF device_id \notin DOMAIN drvDevices THEN Result("False", <<>>)
              ELSE Result("True", << FdMessage(DrvCommandTopic(device_id), command, "",
                                               NoDict, NoDict) >>)

FdNoResult == FdResult("", "", "", "", "", <<>>, "", <<>>)

FdInit ==
    /\ fdForm \in Forms
    /\ fsAdapters = <<>>
    /\ fsRegistry = [p \in Protocols |-> [k \in {} |-> 0]]
    /\ drvDevices = [k \in {} |-> 0]
    /\ fdNow = 1
    /\ fdObserved = {}
    /\ fdLast = FdNoResult

FdParked ==
    /\ fdForm = "namespaced"
    /\ fsAdapters = <<>>
    /\ fsRegistry = [p \in Protocols |-> [k \in {} |-> 0]]
    /\ drvDevices = [k \in {} |-> 0]
    /\ fdNow = 1
    /\ fdObserved = {}
    /\ fdLast = FdNoResult

FsNext ==
    \/ \E p \in Protocols : FsRegisterAdapter(p)
    \/ \E p \in Protocols, d \in FdIds : FsAdapterBirth(p, d)
    \/ \E d \in FdIds, j \in ParametersJson : FsSetDeviceParameters(d, j)
    \/ \E d \in FdIds, j \in CommandJson : FsSendDeviceCommand(d, "trip", j)
    \/ \E d \in FdIds : FsGetDeviceParameters(d)
    \/ \E d \in FdIds : FsGetDeviceConfiguration(d)
    \/ FsDiscoverDevices

DrvNext ==
    \/ \E topic \in DrvTopics, payload \in DrvPayloads : DrvOnMessage(topic, payload)
    \/ DrvDiscoverDevices
    \/ \E d \in FdIds : DrvGetDeviceParameters(d)
    \/ \E d \in FdIds, S \in SUBSET ParamNames :
          DrvSetDeviceParameters(d, Restrict(ParamValue, S))
    \/ \E d \in FdIds, t \in {"HighSensitivity", "NoSuchTemplate"} :
          DrvApplyConfigurationTemplate(d, t)
    \/ \E d \in FdIds, c \in {"trip", "close"} : DrvSendCommand(d, c)

-----------------------------------------------------------------------------
(* MQTT to Redpanda bridge: MQTTRedpandaBridge (mqtt-redpanda-bridge/main.py) *)

\* the number of messages after which the bridge receives no more
MaxBridge == 3

\* self.topic_mappings, in the order of the dict
topic_mappings ==
    LET Mapping(pattern, stream) == [pattern |-> pattern, stream |-> stream] IN
    << Mapping(<<"spBv1.0", "IIoT", "DBIRTH", "+">>, "iot.telemetry.sparkplug.birth"),
       Mapping(<<"spBv1.0", "IIoT", "DDATA", "+">>, "iot.telemetry.sparkplug.data"),
       Mapping(<<"spBv1.0", "IIoT", "DDEATH", "+">>, "iot.telemetry.sparkplug.death"),
       Mapping(<<"lwm2m", "+", "reg">>, "iot.telemetry.lwm2m.registration"),
       Mapping(<<"lwm2m", "+", "update">>, "iot.telemetry.lwm2m.update") >>

\* _topic_matches_pattern
TopicMatchesPattern(topic, pattern) ==
    /\ Len(topic) = Len(pattern)
    /\ \A i \in 1..Len(pattern) : pattern[i] = "+" \/ topic[i] = pattern[i]

\* _map_mqtt_to_redpanda_topic: "" is None
MapMqttToRedpandaTopic(mqtt_topic) ==
    LET hits == { i \in 1..Len(topic_mappings) :
                    TopicMatchesPattern(mqtt_topic, topic_mappings[i].pattern) }
    IN  IF hits = {} THEN ""
        ELSE topic_mappings[CHOOSE i \in hits : \A j \in hits : i <= j].stream

\* The payload bytes, and what json.loads returns for their text: ok = FALSE
\* when it raises, else the object with its "device_id" key (has_id) and
\* its other keys.  Of a text payload only the first byte is kept in bytes.
BgPayload(bytes, ok, has_id, device_id, keys) ==
    [bytes |-> bytes,
     loads |-> [ok |-> ok, has_id |-> has_id, device_id |-> device_id, keys |-> keys]]

LeftBrace == 123

BgPayloads ==
    { BgPayload(<<LeftBrace>>, TRUE, FALSE, JNull, {"temperature"}),
      BgPayload(<<LeftBrace>>, TRUE, TRUE, JStr("dev-B"), {"temperature"}),
      BgPayload(<<LeftBrace>>, TRUE, TRUE, JNum(7), {}),
      BgPayload(<<LeftBrace>>, FALSE, FALSE, JNull, {}),
      BgPayload(<<8, 171>>, FALSE, FALSE, JNull, {}),
      BgPayload(<<>>, FALSE, FALSE, JNull, {}) }

HexDigits ==
    <<"0", "1", "2", "3", "4", "5", "6", "7", "8", "9", "a", "b", "c", "d", "e", "f">>

\* bytes.hex(): two digits for each byte
RECURSIVE Hex(_)
Hex(bytes) ==
    IF bytes = <<>> THEN <<>>
    ELSE << HexDigits[(Head(bytes) \div 16) + 1], HexDigits[(Head(bytes) % 16) + 1] >>
         \o Hex(Tail(bytes))

\* the dict "data" of a message: the decoded object, or {"raw_payload": hex}
BgData(raw, raw_payload, has_id, device_id, keys) ==
    [raw |-> raw, raw_payload |-> raw_payload, has_id |-> has_id,
     device_id |-> device_id, keys |-> keys]

\* _extract_device_id for a dict with or without a "device_id" key; the
\* result is the JSON value of the key, or a segment of the topic
ExtractDeviceId(topic, has_id, device_id) ==
    IF has_id THEN device_id
    ELSE IF InTopic("spBv1.0", topic) /\ Len(topic) > 3 THEN JStr(topic[4])
    ELSE IF InTopic("lwm2m", topic) /\ Len(topic) > 1 THEN JStr(topic[2])
    ELSE JStr("unknown")

\* _parse_mqtt_message: <<>> is None, else the message in a sequence
ParseMqttMessage(topic, payload) ==
    LET Message(data) ==
            << [device_id |-> ExtractDeviceId(topic, data.has_id, data.device_id),
                topic |-> topic, payload_size |-> Len(payload.bytes), data |-> data] >>
    IN  IF payload.bytes # <<>> /\ Head(payload.bytes) = LeftBrace
        THEN IF payload.loads.ok
             THEN Message(BgData(FALSE, <<>>, payload.loads.has_id, payload.loads.device_id,
                                 payload.loads.keys))
             ELSE <<>>
        ELSE Message(BgData(TRUE, Hex(payload.bytes), FALSE, JNull, {}))

\* key_serializer: k.encode('utf-8') if k else None; ok = FALSE when the
\* key has no encode
KeySerializer(k) ==
    CASE k.t = "str" -> [ok |-> TRUE, key |-> k.s]
      [] k.t = "num" /\ k.n # 0 -> [ok |-> FALSE, key |-> ""]
      [] OTHER -> [ok |-> TRUE, key |-> ""]

BgHandleCountsTwice(topic, payload, kafka_ok) ==
    [sent |-> <<>>, bridged |-> 1, errors |-> 1]

\* _on_mqtt_message: the records handed to the stream and the increments of
\* the two counters; kafka_ok is the outcome of future.get
BgHandle(topic, payload, kafka_ok) ==
    LET redpanda_topic == MapMqttToRedpandaTopic(topic)
        message_data == ParseMqttMessage(topic, payload)
        Outcome(sent, bridged, errors) == [sent |-> sent, bridged |-> bridged, errors |-> errors]
    IN  IF redpanda_topic = "" THEN Outcome(<<>>, 0, 0)
        ELSE IF message_data = <<>> THEN Outcome(<<>>, 0, 1)
        ELSE LET device_id == ExtractDeviceId(topic, TRUE, message_data[1].device_id)
                 key == KeySerializer(device_id)
             IN  IF ~key.ok THEN Outcome(<<>>, 0, 1)
                 ELSE IF kafka_ok
                 THEN Outcome(<< [topic |-> redpanda_topic, key |-> key.key,
                                  value |-> message_data[1]] >>, 1, 0)
                 ELSE Outcome(<<>>, 0, 1)

BgTopics ==
    { <<"spBv1.0", "IIoT", "DDATA", "dev-A">>, <<"lwm2m", "dev-A", "reg">>,
      <<"spBv1.0", "IIoT", "NDATA", "dev-A">> }

bgOthers == <<hostVars, adVars, hpVars, brVars, lwVars, dcVars, fdVars, pkVars, scVars>>

\* _on_mqtt_message
BgOnMessage(topic, payload, kafka_ok) ==
    /\ UNCHANGED bgOthers
    /\ messages_bridged + bridge_errors < MaxBridge
    /\ LET r == BgHandle(topic, payload, kafka_ok) IN
       /\ messages_bridged' = messages_bridged + r.bridged
       /\ bridge_errors' = bridge_errors + r.errors
       /\ bgLast' = [kind |-> "message", topic |-> topic, payload |-> payload,
                     kafka_ok |-> kafka_ok, sent |-> r.sent]

BgNoPayload == BgPayload(<<>>, FALSE, FALSE, JNull, {})

\* _on_mqtt_connect
BgOnConnect(rc) ==
    /\ UNCHANGED bgOthers
    /\ messages_bridged + bridge_errors < MaxBridge
    /\ messages_bridged' = messages_bridged
    /\ bridge_errors' = IF rc = 0 THEN bridge_errors ELSE bridge_errors + 1
    /\ bgLast' = [kind |-> "connect", topic |-> <<>>, payload |-> BgNoPayload,
                  kafka_ok |-> TRUE, sent |-> <<>>]

\* _on_mqtt_disconnect
BgOnDisconnect(rc) ==
    /\ UNCHANGED bgOthers
    /\ messages_bridged + bridge_errors < MaxBridge
    /\ messages_bridged' = messages_bridged
    /\ bridge_errors' = IF rc # 0 THEN bridge_errors + 1 ELSE bridge_errors
    /\ bgLast' = [kind |-> "disconnect", topic |-> <<>>, payload |-> BgNoPayload,
                  kafka_ok |-> TRUE, sent |-> <<>>]

BgInit ==
    /\ messages_bridged = 0
    /\ bridge_errors = 0
    /\ bgLast = [kind |-> "", topic |-> <<>>, payload |-> BgNoPayload, kafka_ok |-> TRUE,
                 sent |-> <<>>]

BgNext ==
    \/ \E topic \in BgTopics, payload \in BgPayloads, kafka_ok \in BOOLEAN :
          BgOnMessage(topic, payload, kafka_ok)
    \/ \E rc \in {0, 5} : BgOnConnect(rc)
    \/ \E rc \in {0, 7} : BgOnDisconnect(rc)

-----------------------------------------------------------------------------
(* Telemetry timing of the device simulators:                               *)
(* high_frequency_telemetry_thread (device-simulator/main.py) and           *)
(* _telemetry_worker (smart_breaker_simulator.py).  Time is counted in      *)
(* ticks of the clock; each simulator is a process with a clock of its own. *)

\* config.telemetry_interval, in ticks
TelemetryInterval == 2

\* the longest time one pass through a loop body takes, in ticks
MaxStall == 5

\* the clock value after which no pass is started
MaxSchedClock == 8

\* the longest time by which time.sleep returns late, in ticks
MaxOversleep == 1

\* the deadline that keeps every slot, passed or not
NextSendTimeKeepsSlots(deadline, now) == deadline + TelemetryInterval

\* the deadline after a pass that ended at now: the next slot, or now when
\* that slot has passed already
NextSendTime(deadline, now) ==
    IF (deadline + TelemetryInterval) - now > 0
    THEN deadline + TelemetryInterval
    ELSE now

scOthers == <<hostVars, adVars, hpVars, brVars, lwVars, dcVars, fdVars, pkVars, bgVars>>

\* high_frequency_telemetry_thread, one pass of the loop body up to the
\* call of time.sleep: the DDATA is published at the start of the pass, the
\* pass takes d ticks
ScPass(d) ==
    /\ UNCHANGED scOthers
    /\ scPc = "loop"
    /\ scNow <= MaxSchedClock
    /\ LET now == scNow + d
           sleep_time == (next_send_time + TelemetryInterval) - now
       IN  /\ scNow' = now
           /\ next_send_time' = NextSendTime(next_send_time, now)
           /\ scPc' = IF sleep_time > 0 THEN "sleep" ELSE "loop"
           /\ scLast' = [passes |-> 1, start |-> scNow, end |-> now,
                         deadline |-> next_send_time, waited |-> scWaited,
                         sleeps |-> sleep_time > 0]
           /\ scWaited' = FALSE
    /\ UNCHANGED <<btNow, btPc, btLast>>

\* time.sleep(sleep_time) returns, o ticks late
ScWake(o) ==
    /\ UNCHANGED scOthers
    /\ scPc = "sleep"
    /\ scNow' = next_send_time + o
    /\ scPc' = "loop"
    /\ scWaited' = TRUE
    /\ UNCHANGED <<next_send_time, scLast, btNow, btPc, btLast>>

\* _telemetry_worker, one pass of the loop body up to the call of
\* time.sleep: the DDATA is published at the start of the pass
BtPass(d) ==
    /\ UNCHANGED scOthers
    /\ btPc = "loop"
    /\ btNow <= MaxSchedClock
    /\ btNow' = btNow + d
    /\ btPc' = "sleep"
    /\ btLast' = [passes |-> 1, start |-> btNow, before |-> btLast.start]
    /\ UNCHANGED <<scNow, scPc, next_send_time, scWaited, scLast>>

\* time.sleep(self.config.telemetry_interval) returns, o ticks late
BtWake(o) ==
    /\ UNCHANGED scOthers
    /\ btPc = "sleep"
    /\ btNow' = btNow + TelemetryInterval + o
    /\ btPc' = "loop"
    /\ UNCHANGED <<scNow, scPc, next_send_time, scWaited, scLast, btLast>>

\* both threads at the top of their loop: next_send_time = time.time()
ScInit ==
    /\ scNow = 0
    /\ scPc = "loop"
    /\ next_send_time = 0
    /\ scWaited = FALSE
    /\ scLast = [passes |-> 0, start |-> 0, end |-> 0, deadline |-> 0, waited |-> FALSE,
                 sleeps |-> FALSE]
    /\ btNow = 0
    /\ btPc = "loop"
    /\ btLast = [passes |-> 0, start |-> 0, before |-> 0]

ScNext ==
    \/ \E d \in 0..MaxStall : ScPass(d)
    \/ \E o \in 0..MaxOversleep : ScWake(o)
    \/ \E d \in 0..MaxStall : BtPass(d)
    \/ \E o \in 0..MaxOversleep : BtWake(o)

LastParked == BgInit /\ ScInit

\* the parts of the system that the specification at hand does not run
MoreParked == DcInit /\ FdParked /\ PkParked /\ LastParked

-----------------------------------------------------------------------------
(* Specifications *)

InitHost == HostInit /\ AdapterParked /\ HpInit /\ BrInit /\ LwInit /\ MoreParked

SpecHost == InitHost /\ [][HostNext]_vars

InitAdapter == AdapterInit /\ HostInit /\ HpInit /\ BrInit /\ LwInit /\ MoreParked

SpecAdapter == InitAdapter /\ [][AdapterNext]_vars

InitHP == HpInit /\ HostInit /\ AdapterParked /\ BrInit /\ LwInit /\ MoreParked

SpecHP == InitHP /\ [][HpNext]_vars

InitHPMgmt == HpInit /\ HostInit /\ AdapterParked /\ BrInit /\ LwInit /\ MoreParked

SpecHPMgmt == InitHPMgmt /\ [][HpMgNext]_vars

InitBreaker == BrInit /\ HostInit /\ AdapterParked /\ HpInit /\ LwInit /\ MoreParked

SpecBreaker == InitBreaker /\ [][BrNext]_vars

InitLwm2m == LwInit /\ HostInit /\ AdapterParked /\ HpInit /\ BrInit /\ MoreParked

SpecLwm2m == InitLwm2m /\ [][LwNext]_vars

InitDeviceCmd ==
    DcInit /\ FdParked /\ PkParked /\ LastParked
        /\ HostInit /\ AdapterParked /\ HpInit /\ BrInit /\ LwInit

SpecDeviceCmd == InitDeviceCmd /\ [][DcNext]_vars

InitIntegration ==
    FdInit /\ DcInit /\ PkParked /\ LastParked
        /\ HostInit /\ AdapterParked /\ HpInit /\ BrInit /\ LwInit

SpecFdiServer == InitIntegration /\ [][FsNext]_vars

SpecFdiDriver == InitIntegration /\ [][DrvNext]_vars

InitFdiPackage ==
    PkInit /\ DcInit /\ FdParked /\ LastParked
        /\ HostInit /\ AdapterParked /\ HpInit /\ BrInit /\ LwInit

SpecFdiPackage == InitFdiPackage /\ [][PkNext]_vars

InitBridge ==
    BgInit /\ ScInit /\ DcInit /\ FdParked /\ PkParked
        /\ HostInit /\ AdapterParked /\ HpInit /\ BrInit /\ LwInit

SpecBridge == InitBridge /\ [][BgNext]_vars

InitScheduler ==
    ScInit /\ BgInit /\ DcInit /\ FdParked /\ PkParked
        /\ HostInit /\ AdapterParked /\ HpInit /\ BrInit /\ LwInit

SpecScheduler == InitScheduler /\ [][ScNext]_vars

-----------------------------------------------------------------------------
(* Claims about the Sparkplug B host *)

\* the rebirth requests (NCMD) published to node d
Rebirths(d) ==
    Len(SelectSeq(hostPublished, LAMBDA m : m.topic[3] = "NCMD" /\ m.topic[4] = d))

\* the registry's metrics of device d as a name -> value map
RegistryValues(d) ==
    [n \in DOMAIN devices[d].metrics |-> devices[d].metrics[n].value]

\* the latest step handled a message of type t for device d
Handled(t, d) ==
    /\ Len(hostLast'.topic) = 4
    /\ hostLast'.topic[3] = t
    /\ hostLast'.topic[4] = d
    /\ hostNow' # hostNow

\* C1: per node, the seqs of the DDATA the host applies to the registry
\* increase by exactly 1 modulo 256 from one applied message to the next, and
\* every DDATA with another seq than expected has caused exactly one rebirth
\* request to that node.
C1_SeqMonotonicRebirth ==
    \A d \in DeviceIds :
        /\ \A i \in 1..(Len(hostAccepted[d]) - 1) :
              hostAccepted[d][i + 1] = (hostAccepted[d][i] + 1) % 256
        /\ Rebirths(d) = hostGaps[d]

\* C2: a DDATA with another seq than expected leaves the stored metrics as
\* they were and makes the device stale, and the device stays stale across
\* further DDATA until a DBIRTH for it is handled.
C2_GapDiscardsAndStales ==
    [][\A d \in DeviceIds :
          /\ (hostGaps'[d] # hostGaps[d]) =>
                /\ d \in DOMAIN devices'
                /\ devices'[d].status = "stale"
                /\ devices'[d].metrics = devices[d].metrics
          /\ (hostStaleDue[d] /\ ~Handled("DBIRTH", d)) =>
                /\ d \in DOMAIN devices'
                /\ devices'[d].status = "stale"]_vars

\* C3: for a device that has only seen DBIRTH and DDATA, the registry holds
\* the last birth's metrics, each overwritten whole by the latest DDATA that
\* named it: names and values come from the received payloads alone, and an
\* undecodable payload adds nothing.
C3_RegistryIsFoldOfPayloads ==
    \A d \in DOMAIN devices :
        devices[d].death_time = 0 => RegistryValues(d) = hostRef[d]

\* C5: handling a DDEATH for a known device sets its status to offline,
\* empties its metrics and keeps its record.
C5_DeathOfflineEmptyKept ==
    [][\A d \in DeviceIds :
          (d \in DOMAIN devices /\ Handled("DDEATH", d)) =>
                /\ d \in DOMAIN devices'
                /\ devices'[d].status = "offline"
                /\ devices'[d].metrics = EmptyMetrics]_vars

\* C6: a device is online only if a DBIRTH for it was handled and no DDEATH
\* has been handled since that birth.
C6_OnlineOnlyAfterBirth ==
    \A d \in DOMAIN devices : devices[d].status = "online" => hostBorn[d]

-----------------------------------------------------------------------------
(* Claims about the MQTT adapter *)

\* the names of the metrics the adapter holds for device d
AdapterNames(devs, d) ==
    IF d \in DOMAIN devs /\ devs[d].metrics # NoMetrics THEN DOMAIN devs[d].metrics ELSE {}

\* the latest step delivered a decodable DBIRTH of device d
BirthDelivered(d) ==
    /\ adNow' # adNow
    /\ adLast'.topic = <<NAMESPACE, GROUP_ID, "DBIRTH", d>>
    /\ adLast'.payload.ok

\* C4: a DBIRTH replaces the device's metric set: a metric that was in the
\* registry before the birth and is not in the birth is not in the registry
\* after it.
C4_BirthReplacesMetrics ==
    [][\A d \in DeviceIds :
          BirthDelivered(d) =>
              \A n \in AdapterNames(adDevices, d) :
                  n \notin DOMAIN Carried(adLast'.payload) =>
                      n \notin AdapterNames(adDevices', d)]_vars

-----------------------------------------------------------------------------
(* Claims about the device simulators *)

\* C7: the seq of every DDATA payload a device builds is in 0..255 and is the
\* seq of the DDATA payload built before it plus 1, modulo 256.
C7_DataSeqModulo256 ==
    /\ \A i \in 1..Len(hpBuilt) : hpBuilt[i] \in 0..255
    /\ Len(hpBuilt) = 2 => hpBuilt[2] = (hpBuilt[1] + 1) % 256

\* C8: every DBIRTH carries seq 0 and the first DDATA published after a
\* DBIRTH carries seq 1.
C8_FirstDataAfterBirthIsOne ==
    /\ hpBirthSeq # <<>> => hpBirthSeq[1] = 0
    /\ hpFirstData # <<>> => hpFirstData[1] = 1

\* C9: on every broker connection no DDATA reaches the broker before a DBIRTH
\* has reached it on that connection.
C9_BirthBeforeData == ~brDataFirst

\* C15: on every broker connection no update reaches the broker before the
\* registration document has reached it on that connection.
C15_RegistrationBeforeUpdate == ~brUpdFirst

\* C16: once the management loop has stopped every operation created is in
\* an envelope that was published; an envelope carries between 1 and bulk_size
\* operations in creation order and its bulk_size field is their number.
C16_BulkLosesNothing ==
    /\ hpMgPc = "done" => hpEmitted = hpOps
    /\ hpEnv.bulk_operations # <<>> =>
          /\ Len(hpEnv.bulk_operations) \in 1..bulk_size
          /\ hpEnv.bulk_size = Len(hpEnv.bulk_operations)
          /\ \A i \in 1..(Len(hpEnv.bulk_operations) - 1) :
                hpEnv.bulk_operations[i + 1] = hpEnv.bulk_operations[i] + 1
          /\ hpEnv.bulk_operations[Len(hpEnv.bulk_operations)] = hpEmitted

\* C10: a device that was connected when it shut down has published a DDEATH
\* before it disconnected, and publishes no DDATA after its DDEATH.
C10_DeathBeforeDisconnect ==
    /\ (hpMainPc = "stopped" /\ hpUpAtStop) => "DDEATH" \in hpKinds
    /\ "DDEATH" \in hpKinds => hpWire # "DDATA"

-----------------------------------------------------------------------------
(* Claims about the LwM2M server *)

\* the step handles a message of the given type (third topic level)
LwHandled(message_type) ==
    /\ lwLast'.cur.at = lwNow
    /\ lwLast'.cur.topic[3] = message_type

\* a device record with its timestamps blanked
LwTimeless(record) == [record EXCEPT !.registered_at = 0, !.last_update = 0]

\* the record of device d in the registry
LwRecord(devs, heap, d) == heap[devs[d]]

\* C11: when the registration message handled for a device is the same as the
\* message handled for it just before, the registry holds the same device ids
\* as before and the device's record is the same as before, timestamps aside.
C11_ReRegistrationIdempotent ==
    [][ (LwHandled("reg") /\ lwLast'.cur.repeat /\ lwLast'.cur.payload.json) =>
          LET d == lwLast'.cur.topic[2]
          IN  /\ d \in DOMAIN lwDevices
              /\ DOMAIN lwDevices' = DOMAIN lwDevices
              /\ LwTimeless(LwRecord(lwDevices', lwHeap', d))
                    = LwTimeless(LwRecord(lwDevices, lwHeap, d)) ]_vars

\* C11 witness: a registration was handled twice in a row and the device is
\* in the registry
C11_Witness ==
    /\ lwLast.cur.repeat
    /\ lwLast.cur.topic[3] = "reg"
    /\ lwLast.cur.payload.json
    /\ lwLast.cur.topic[2] \in DOMAIN lwDevices

\* C12: handling a dereg message for a registered device leaves its record in
\* the registry with status offline.
C12_DeregMarksOfflineKeepsRecord ==
    [][ (LwHandled("dereg") /\ lwLast'.cur.topic[2] \in DOMAIN lwDevices) =>
          LET d == lwLast'.cur.topic[2]
          IN  /\ d \in DOMAIN lwDevices'
              /\ LwRecord(lwDevices', lwHeap', d).status = "offline" ]_vars

C14_LifetimeExpiry ==
    \A d \in DOMAIN lwDevices :
        LET r == LwRecord(lwDevices, lwHeap, d)
        IN  /\ lwNow - r.last_update > r.lifetime => r.status \in {"stale", "offline"}
            /\ lwNow - r.last_update > 2 * r.lifetime => r.status = "offline"

\* the device an event's data names: data["device_id"], which for a device
\* record is the record's device_id
LwEventDevice(heap, event) ==
    IF event.data.kind = "record" THEN heap[event.data.ref].device_id
    ELSE event.data.device_id

\* the step put exactly one event at the end of the event list: an event of
\* the given type, stamped with the time of the step and naming device d
LwAppendedOne(event_type, d) ==
    /\ lwEvents' # <<>>
    /\ LET e == lwEvents'[Len(lwEvents')]
       IN  /\ e.event_type = event_type
           /\ e.timestamp = lwNow
           /\ LwEventDevice(lwHeap', e) = d
           /\ \/ lwEvents' = Append(lwEvents, e)
              \/ lwEvents' = Tail(Append(lwEvents, e))

C18_BoundedDropOldest ==
    [][ /\ Len(lwEvents') <= max_events
        /\ (lwLast'.cur.at = lwNow /\ lwEvents' # <<>>
               /\ lwEvents'[Len(lwEvents')].timestamp = lwNow) =>
              LET e == lwEvents'[Len(lwEvents')]
              IN  lwEvents' = IF Len(lwEvents) = max_events
                              THEN Append(Tail(lwEvents), e)
                              ELSE Append(lwEvents, e)
        /\ (lwLast'.cur.at = lwNow /\ lwLast'.cur.topic[3] = "reg" /\ lwLast'.cur.payload.json) =>
              /\ lwEvents' # <<>>
              /\ lwEvents'[Len(lwEvents')].timestamp = lwNow ]_vars

\* C18 witness: the list is full and the event of the first registration,
\* which was emitted, is no longer in it
C18_Witness ==
    /\ Len(lwEvents) = max_events
    /\ lwHeap # <<>>
    /\ \A i \in 1..Len(lwEvents) :
          ~(lwEvents[i].event_type = "device_registered" /\ lwEvents[i].data.ref = 1)

\* C19: every command_response event in the list names a device and a verb
\* for which the server had published a command.
C19_ResponseOnlyForCommand ==
    \A i \in 1..Len(lwEvents) :
        lwEvents[i].event_type = "command_response" =>
            <<lwEvents[i].data.device_id, lwEvents[i].data.command_type>> \in lwCommanded

\* C20: every command the server publishes carries a correlation_id, and the
\* caller is not answered before a response for that command was handled.
C20_CommandsCorrelated ==
    lwCmdLast.topic # <<>> =>
        /\ "correlation_id" \in lwCmdLast.keys
        /\ lwHttp.code = 200 =>
              \E i \in 1..Len(lwEvents) :
                  /\ lwEvents[i].event_type = "command_response"
                  /\ lwEvents[i].timestamp >= lwCmdLast.timestamp
                  /\ lwEvents[i].data.device_id = lwCmdLast.topic[2]
                  /\ lwEvents[i].data.command_type = lwCmdLast.topic[4]

-----------------------------------------------------------------------------
(* Claims about the command intake of the devices *)

\* no call of _process_command_message is waiting or in progress
DcQuiescent ==
    /\ hcQueue = <<>> /\ hcRunning = {}
    /\ bcQueue = <<>> /\ bcRunning = {}

\* a message on lwm2m/<id>/cmd/<verb> that carries the command document the
\* LwM2M server publishes for the verb
DcIsServerCommand(a) ==
    /\ Len(a.topic) = 4
    /\ a.topic[1] = "lwm2m" /\ a.topic[3] = "cmd" /\ a.topic[4] \in Verbs
    /\ a.payload = DcServerCommand(a.topic[4])

\* C21: once a device has finished with what was delivered to it, every
\* read, write or execute command of the server that was delivered on
\* lwm2m/<id>/cmd/<verb> has been answered by the device with a message on
\* lwm2m/<id>/resp/<verb>.
C21_CommandAnswered ==
    DcQuiescent =>
        \A i \in 1..Len(dcArrived) :
            DcIsServerCommand(dcArrived[i]) =>
                \E j \in 1..Len(dcPublished) :
                    /\ dcPublished[j].from = dcArrived[i].device
                    /\ dcPublished[j].topic =
                          <<"lwm2m", dcArrived[i].device, "resp", dcArrived[i].topic[4]>>

\* the shared objects of the breaker after the call alone has run to its end
RECURSIVE BcRunToEnd(_, _, _, _)
BcRunToEnd(task, config, state, regobj) ==
    LET r == BcStep(task, config, state, regobj) IN
    IF r.done THEN [config |-> r.config, state |-> r.state, regobj |-> r.regobj]
    ELSE BcRunToEnd(r.task, r.config, r.state, r.regobj)

\* ... after the messages delivered to the breaker were processed one after
\* the other, in the order of their delivery
RECURSIVE BcSerial(_, _)
BcSerial(arrived, s) ==
    IF arrived = <<>> THEN s
    ELSE LET a == Head(arrived) IN
         BcSerial(Tail(arrived),
                  IF a.device = BcDeviceId
                  THEN BcRunToEnd(NewTask(0, a.topic, a.payload), s.config, s.state, s.regobj)
                  ELSE s)

\* C23: once the breaker has finished with the commands delivered to it, its
\* configuration and its state are what processing the commands one at a
\* time, in the order of their delivery, produces.
C23_CommandsSerialized ==
    DcQuiescent =>
        [config |-> bcConfig, state |-> bcState, regobj |-> bcRegObj]
          = BcSerial(dcArrived, [config |-> BreakerConfig, state |-> BreakerState,
                                 regobj |-> Object3201(BreakerConfig)])

-----------------------------------------------------------------------------
(* Claims about the integration side *)

\* the command subscriptions of the simulator that runs as device_id
DeviceFilters(device_id) == IF device_id = HcDeviceId THEN HcFilters ELSE BcFilters

\* the operations of the integration side that issue a command to a device
FdCommandOps ==
    { "send_command", "set_device_parameters", "apply_configuration_template",
      "SendDeviceCommand", "SetDeviceParameters" }

\* C22: a command that send_command, set_device_parameters or
\* apply_configuration_template of the driver (or send_device_command of the
\* server) publishes for a device it knows is published on a topic that a
\* subscription of the target device matches.
C22_CommandTopicSubscribed ==
    fdLast.op \in FdCommandOps =>
        \A i \in 1..Len(fdLast.published) :
            \E f \in DeviceFilters(fdLast.device_id) :
                TopicMatches(f, fdLast.published[i].topic)

\* the names the description declares writable: the parameters of its
\* functions and of its commands
DeclaredWritable(description) ==
    { n \in ParamNames :
        \/ \E i \in 1..Len(description.functions) :
              \E k \in 1..Len(description.functions[i].parameters) :
                  description.functions[i].parameters[k] = n
        \/ \E i \in 1..Len(description.commands) :
              \E k \in 1..Len(description.commands[i].parameters) :
                  description.commands[i].parameters[k] = n }

\* the last operation was SetDeviceParameters with a JSON object, at a
\* server whose registered document is written in the FDI namespace
FdSetParametersCall ==
    /\ fdLast.op = "SetDeviceParameters"
    /\ fdLast.args.json
    /\ fdForm = "namespaced"

C25_StrictRejectsMixed ==
    ( /\ FdSetParametersCall
      /\ DOMAIN fdLast.args.dict \ DeclaredWritable(SmartBreakerDescription) # {} )
    => /\ fdLast.status = "error"
       /\ fdLast.published = <<>>

\* the operations of the server that are addressed to one device
FsDeviceOps ==
    { "SetDeviceParameters", "SendDeviceCommand", "GetDeviceParameters",
      "GetDeviceConfiguration" }

\* no registered adapter has the device in its registry
FsUnknown(device_id) ==
    \A i \in 1..Len(fsAdapters) : device_id \notin DOMAIN fsRegistry[fsAdapters[i]]

\* C26: SetDeviceParameters, SendDeviceCommand, GetDeviceParameters or
\* GetDeviceConfiguration for a device id that no adapter knows returns a
\* NotFound error, not a success status, and publishes nothing.
C26_UnknownDeviceNotFound ==
    [][ ( /\ fdLast' # fdLast
          /\ fdLast'.op \in FsDeviceOps
          /\ FsUnknown(fdLast'.device_id) )
        => /\ fdLast'.status = "error"
           /\ fdLast'.message = "NotFound"
           /\ fdLast'.published = <<>> ]_vars

\* the registered adapters whose registry contains the device
FsOwners(device_id) ==
    { fsAdapters[i] : i \in { k \in 1..Len(fsAdapters) :
                                 device_id \in DOMAIN fsRegistry[fsAdapters[k]] } }

\* the result of a call of send_device_command or of get_device_data
FsRouted(result) ==
    \/ result.op = "GetDeviceParameters"
    \/ result.op = "SendDeviceCommand" /\ result.status = "success"

\* C27: with several adapters registered, a command that the server sends
\* to device D and a read of the data of D are served by an adapter whose
\* registry contains D, in whatever order the adapters were registered, and
\* DiscoverDevices returns the devices of all adapters together.
C27_RoutedToOwner ==
    [][ fdLast' # fdLast
        => /\ (FsRouted(fdLast') /\ FsOwners(fdLast'.device_id) # {})
                 => fdLast'.served \in FsOwners(fdLast'.device_id)
           /\ (fdLast'.op = "DiscoverDevices")
                 => UNION { fdLast'.data[i].devices : i \in 1..Len(fdLast'.data) }
                      = UNION { DOMAIN fsRegistry[fsAdapters[i]] : i \in 1..Len(fsAdapters) }
      ]_vars

\* C28: GetDeviceConfiguration for a device that an adapter knows sends a
\* get_configuration command to the device and returns a configuration
\* that is not empty.
C28_ConfigurationReadThrough ==
    [][ ( /\ fdLast' # fdLast
          /\ fdLast'.op = "GetDeviceConfiguration"
          /\ FsOwners(fdLast'.device_id) # {} )
        => /\ fdLast'.data # <<>>
           /\ \E i \in 1..Len(fdLast'.published) :
                 fdLast'.published[i].command = "get_configuration" ]_vars

-----------------------------------------------------------------------------
(* Claims about the description documents *)

\* C29: the namespaced form and the unnamespaced form of one description
\* document load to the same description, in the driver (identity,
\* parameters, templates) and in the server (functions, commands,
\* templates).
C29_FormsLoadAlike ==
    /\ (pkDriver["namespaced"] # <<>> /\ pkDriver["unnamespaced"] # <<>>)
          => pkDriver["namespaced"] = pkDriver["unnamespaced"]
    /\ (pkServer["namespaced"] # <<>> /\ pkServer["unnamespaced"] # <<>>)
          => pkServer["namespaced"] = pkServer["unnamespaced"]

-----------------------------------------------------------------------------
(* Claims about the device driver *)

\* the driver knows the device of the call and, for a template, holds the
\* template in the package it loaded
DrvCanSend(result) ==
    /\ result.device_id \in DOMAIN drvDevices
    /\ result.op = "apply_configuration_template"
          => result.name \in DOMAIN DrvPackage[fdForm].templates

\* C30: send_command, set_device_parameters and
\* apply_configuration_template return True after publishing exactly one
\* command message when the driver knows the device (and holds the
\* template); otherwise they return False and publish nothing.
\* discover_devices returns exactly the ids of the devices whose birth or
\* registration was delivered to the driver.
C30_DriverOperations ==
    [][ ( fdLast' # fdLast /\ fdLast'.by = "driver" )
        => /\ ( fdLast'.op \in {"send_command", "set_device_parameters",
                                "apply_configuration_template"} )
                 => IF DrvCanSend(fdLast')
                    THEN fdLast'.status = "True" /\ Len(fdLast'.published) = 1
                    ELSE fdLast'.status = "False" /\ fdLast'.published = <<>>
           /\ ( fdLast'.op = "discover_devices" )
                 => fdLast'.data[1].devices = fdObserved ]_vars

-----------------------------------------------------------------------------
(* Claims about the bridge *)

\* the device-id segment of a Sparkplug or LwM2M topic
TopicDeviceId(topic) == IF topic[1] = "lwm2m" THEN topic[2] ELSE topic[4]

\* C31: the key of every record the bridge hands to the stream, and the
\* device_id of its envelope, are the device-id segment of the topic the
\* message arrived on, whatever the payload carries.
C31_KeyIsTopicDevice ==
    \A i \in 1..Len(bgLast.sent) :
        /\ bgLast.sent[i].key = TopicDeviceId(bgLast.topic)
        /\ bgLast.sent[i].value.device_id = JStr(TopicDeviceId(bgLast.topic))

\* the callback that ran last handled a message on a topic that a pattern
\* of the mappings matches
BgMappedMessage ==
    /\ bgLast.kind = "message"
    /\ \E i \in 1..Len(topic_mappings) :
          TopicMatchesPattern(bgLast.topic, topic_mappings[i].pattern)

\* C32: a message on a mapped topic that the stream accepts is relayed to
\* the mapped stream topic, its body being the decoded payload or the
\* payload as hex; it is not dropped because the payload cannot be decoded,
\* also when the payload begins with a brace and is not JSON.  (Payloads
\* that carry a device_id of their own are left to C31.)
C32_RelayedDecodedOrHex ==
    ( BgMappedMessage /\ bgLast.kafka_ok /\ ~bgLast.payload.loads.has_id )
    => /\ Len(bgLast.sent) = 1
       /\ bgLast.sent[1].topic = MapMqttToRedpandaTopic(bgLast.topic)
       /\ \/ /\ ~bgLast.sent[1].value.data.raw
             /\ bgLast.payload.loads.ok
             /\ bgLast.sent[1].value.data.keys = bgLast.payload.loads.keys
          \/ /\ bgLast.sent[1].value.data.raw
             /\ bgLast.sent[1].value.data.raw_payload = Hex(bgLast.payload.bytes)

\* C40: handling a message on a mapped topic adds exactly one to exactly one
\* of messages_bridged and bridge_errors; handling a message on a topic
\* that no pattern matches changes neither; no step decreases a counter.
C40_CountersCountMessages ==
    [][ /\ messages_bridged' >= messages_bridged
        /\ bridge_errors' >= bridge_errors
        /\ bgLast'.kind = "message"
              => LET mapped == \E i \in 1..Len(topic_mappings) :
                                  TopicMatchesPattern(bgLast'.topic, topic_mappings[i].pattern)
                     added == (messages_bridged' - messages_bridged)
                              + (bridge_errors' - bridge_errors)
                 IN  added = IF mapped THEN 1 ELSE 0 ]_vars

\* C40 witness: the bridge has relayed a message, has counted an error, and
\* has then handled a message on a topic that no pattern matches
C40_Witness ==
    /\ messages_bridged = 1
    /\ bridge_errors = 1
    /\ bgLast.kind = "message"
    /\ ~BgMappedMessage

-----------------------------------------------------------------------------
(* Claims about the registries of the hosts: isolation of the devices *)

TripNotifications(published) ==
    SelectSeq(published, LAMBDA m : m.kind = "breaker_trip")

(* C35: a closed breaker is tripped at most once until it is closed again,  *)
(* however the threads that call _trip_breaker interleave: every step that  *)
(* raises trip_count or sends a trip notification takes the breaker from    *)
(* Closed to Tripped, raises trip_count by one and sends one notification   *)
(* (on its two topics), and no other step takes the breaker to Tripped.     *)
C35_TrippedOncePerTransition ==
    [][ LET sent == Len(TripNotifications(dcPublished')) - Len(TripNotifications(dcPublished))
            transition == bcState.status = 1 /\ bcState'.status = 2
        IN  /\ (bcState'.trip_count # bcState.trip_count \/ sent # 0) => transition
            /\ transition => bcState'.trip_count = bcState.trip_count + 1 /\ sent = 2
      ]_vars


\* what a reader of the event list finds in the data of an event: for a
\* device record the dict the event refers to, as it is in the heap now
LwEventData(heap, event) ==
    IF event.data.kind = "response" THEN <<event.data>>
    ELSE <<event.data, heap[event.data.ref]>>

(* C36: an event in the event list is a snapshot: no later message (update, *)
(* command response, registration, deregistration) changes the data of an   *)
(* event that is already in the list.                                       *)
C36_EventIsSnapshot ==
    [][ \A i \in 1..Len(lwEvents) :
            LwEventData(lwHeap', lwEvents[i]) = LwEventData(lwHeap, lwEvents[i]) ]_vars


(* C37: an update message for a device id that has no registration record   *)
(* leaves the registration table, the records and the event list as they    *)
(* were and publishes no acknowledgement; it creates no record.             *)
C37_UpdateOfUnknownIgnored ==
    [][ (LwHandled("update") /\ lwLast'.cur.topic[2] \notin DOMAIN lwDevices) =>
            /\ lwDevices' = lwDevices
            /\ lwHeap' = lwHeap
            /\ lwEvents' = lwEvents
            /\ lwLoop' = lwLoop ]_vars

\* a well-formed update of a device without a record was handled while
\* another device was registered
C37_Witness ==
    /\ lwLast.cur.at = lwNow - 1
    /\ lwLast.cur.topic # <<>>
    /\ lwLast.cur.topic[3] = "update"
    /\ lwLast.cur.payload.json
    /\ lwLast.cur.payload.objects # <<>>
    /\ lwLast.cur.topic[2] \notin DOMAIN lwDevices
    /\ DOMAIN lwDevices # {}
    /\ lwEvents # <<>>


\* the configure commands among the commands the breaker has processed
BcConfigured(done) ==
    { i \in 1..Len(done) :
        /\ done[i].device = BcDeviceId
        /\ InTopic("lwm2m", done[i].topic)
        /\ done[i].payload.json
        /\ DcGet(done[i].payload, "command") = "configure" }

(* C38: configuration is applied atomically: a configure command with a     *)
(* setting that cannot be applied changes none of the settings.  So when    *)
(* no command is in progress and every configure command processed so far   *)
(* has failed, the configuration is the one the device started with.        *)
C38_ConfigurationAtomic ==
    ( /\ bcQueue = <<>> /\ bcRunning = {}
      /\ \A i \in BcConfigured(dcDone) : dcDone[i].outcome = "error" )
    => bcConfig = BreakerConfig


(* C39: the sequence counter advances only for DDATA that were handed to    *)
(* the broker, so two DDATA of the device that reach the broker one after   *)
(* the other, with no birth between them, carry consecutive seq values      *)
(* (the second is the first plus one, modulo 256) even when a publish       *)
(* between them failed.                                                     *)
C39_DeliveredSeqConsecutive ==
    Len(hpDelivered) = 2 =>
        \/ hpDelivered[2] = hpDelivered[1] + 1
        \/ hpDelivered[2] = (hpDelivered[1] + 1) % 256

====
